---- MODULE Spec2Model ----
(***************************************************************************)
(* Label rendering and printer-protocol encoding of simple_app.py:         *)
(* the ZPL graphic encoder (_text_to_zpl_graphic, _image_to_zpl_hex), the  *)
(* fixed-graphic cache built at module initialization and the label        *)
(* composer generate_zpl_labels.                                           *)
(*                                                                         *)
(* Python strings are sequences of one-character strings.  CJK characters  *)
(* are written by their romanisation, one token per character:             *)
(*   [[ = U+3010, ]] = U+3011, ru ku = "in stock", chu ku = "out of stock",*)
(*   shi ji ming cheng = "reagent name", shi ji pi hao = "reagent batch",  *)
(*   wen ding xiao qi = "stable until", ru ku ri qi = "entry date",        *)
(*   ren yuan = "person", chu ku ri qi = "checkout date",                  *)
(*   xin pi hao = "new batch", yun shou he ge = "accepted, qualified".     *)
(***************************************************************************)
EXTENDS Integers, Sequences, FiniteSets, TLC

VARIABLES
    pc,                     \* position of the process / of the operation under study
    IMAGE_AVAILABLE,        \* line 15-19: PIL imported
    ZPL_CHINESE_FONT_PATH,  \* line 83: None or the resolved font path
    ZPL_FIXED_GRAPHICS,     \* line 85: caption key -> graphic definition
    fonts,                  \* font file -> "ok" | "bad" | "missing" (the file system)
    hashseed,               \* the per-process seed of Python's str hash
    call,                   \* arguments and locals of the last generate_zpl_labels call
    zpl_commands,           \* blocks returned by the last generate_zpl_labels call
    img,                    \* the PIL image handed to _image_to_zpl_hex
    hex_data,               \* result of _image_to_zpl_hex
    zpl_command,            \* result of _text_to_zpl_graphic
    prev,                   \* the generate_zpl_labels call before the last one, as observed
    WINDOWS_PRINT_AVAILABLE, \* global of line 18: win32print imported
    printer,                \* the spooler as send_zpl_to_printer left it
    zpl_file,               \* the recovery file of generate_and_print_labels
    result,                 \* return value of generate_and_print_labels
    pdf_doc,                \* the reportlab canvas of the vector path
    font_name,              \* return value of get_chinese_font
    registered,             \* font names registered with pdfmetrics
    runs,                   \* request thread -> position and locals of the call it runs
    db,                     \* rows of the inventory_entry table, in id order
    labels                  \* the labels printed so far, in order

\* the state of printing, of the vector path and of the observer
printVars == <<prev, WINDOWS_PRINT_AVAILABLE, printer, zpl_file, result, pdf_doc, font_name, registered>>

\* the globals that no call assigns after module initialization
processVars == <<IMAGE_AVAILABLE, ZPL_CHINESE_FONT_PATH, ZPL_FIXED_GRAPHICS, fonts,
                 WINDOWS_PRINT_AVAILABLE>>
\* the locals of _text_to_zpl_graphic
graphicVars == <<img, hex_data, zpl_command>>

\* the request threads, the table and the printed labels
routeVars == <<runs, db, labels>>

vars == <<pc, IMAGE_AVAILABLE, ZPL_CHINESE_FONT_PATH, ZPL_FIXED_GRAPHICS, fonts, hashseed,
          call, zpl_commands, img, hex_data, zpl_command, printVars, routeVars>>

\* ------------------------------------------------------------------ bounds
\* largest number of pixels (width * height) of a bitmap handed to the packer
MaxArea == 10
\* largest number of characters of a rasterized text line
MaxChars == 400
\* largest number of lines of a rasterized text
MaxLines == 4
\* largest number of copies of one render call
MaxCopies == 3

\* ------------------------------------------------------- Python values
None == [some |-> FALSE, v |-> <<>>]
Some(x) == [some |-> TRUE, v |-> x]

RECURSIVE Pow2(_)
Pow2(n) == IF n = 0 THEN 1 ELSE 2 * Pow2(n - 1)

\* lowercase letters for the digits above 9
DigitChars_lowercase == <<"0", "1", "2", "3", "4", "5", "6", "7", "8", "9",
                          "a", "b", "c", "d", "e", "f">>

DigitChars == <<"0", "1", "2", "3", "4", "5", "6", "7", "8", "9",
                "A", "B", "C", "D", "E", "F">>

\* the digits of n >= 0 in the given base, most significant first
RECURSIVE Digits(_, _)
Digits(n, base) ==
    IF n < base THEN <<DigitChars[n + 1]>>
    ELSE Digits(n \div base, base) \o <<DigitChars[(n % base) + 1]>>

RECURSIVE Zeros(_)
Zeros(k) == IF k <= 0 THEN <<>> ELSE <<"0">> \o Zeros(k - 1)

\* a fixed-width field: the low `width` digits only
Format_truncating(n, base, width) ==
    LET d == Digits(n, base)
    IN  IF Len(d) >= width THEN SubSeq(d, Len(d) - width + 1, Len(d))
        ELSE Zeros(width - Len(d)) \o d
\* Python format spec 0<width>d / 0<width>X on n >= 0: zero padding up to a
\* minimum width; a longer number is written in full.
Format(n, base, width) ==
    LET d == Digits(n, base)
    IN  Zeros(width - Len(d)) \o d

\* ------------------------------------------------- _image_to_zpl_hex
\* rounding down instead of up
hex_bytes_per_row_floor(width) == width \div 8
\* line 224
hex_bytes_per_row(width) == (width + 7) \div 8

\* lines 233-245: one byte of row y; bit 7 is the left-most pixel, PIL 0 (black)
\* becomes ZPL 1, pixels beyond the width contribute nothing
RECURSIVE byte_bits(_, _, _, _)
byte_bits(im, y, x_byte, bit) ==
    IF bit = 8 THEN 0
    ELSE LET pixel_x == x_byte * 8 + bit
         IN  (IF pixel_x < im.w /\ im.px[<<pixel_x, y>>] = 0
              THEN Pow2(7 - bit) ELSE 0)
             + byte_bits(im, y, x_byte, bit + 1)

\* bit 0 instead of bit 7 for the left-most pixel
byte_value_lsb_first(im, y, x_byte) ==
    LET RECURSIVE acc(_)
        acc(bit) ==
            IF bit = 8 THEN 0
            ELSE LET pixel_x == x_byte * 8 + bit
                 IN  (IF pixel_x < im.w /\ im.px[<<pixel_x, y>>] = 0
                      THEN Pow2(bit) ELSE 0) + acc(bit + 1)
    IN  acc(0)
byte_value(im, y, x_byte) == byte_bits(im, y, x_byte, 0)

\* lines 230-253: rows top to bottom, bytes left to right, two uppercase hex
\* characters per byte (line 248)
RECURSIVE hex_row(_, _, _)
hex_row(im, y, x_byte) ==
    IF x_byte >= hex_bytes_per_row(im.w) THEN <<>>
    ELSE Format(byte_value(im, y, x_byte), 16, 2) \o hex_row(im, y, x_byte + 1)

RECURSIVE hex_rows(_, _)
hex_rows(im, y) ==
    IF y >= im.h THEN <<>> ELSE hex_row(im, y, 0) \o hex_rows(im, y + 1)

image_to_zpl_hex(im) == hex_rows(im, 0)

\* ------------------------------------------------- _text_to_zpl_graphic
\* lines 195-196
header_bytes_per_row(img_width) == (img_width + 7) \div 8
header_total_bytes(img_width, img_height) == header_bytes_per_row(img_width) * img_height

\* line 200: ~DGR:{item_name},{total_bytes:05d},{bytes_per_row:03d},{hex_data}
\* (the payload is kept by its length)
dgr_command(item_name, img_width, img_height, hexlen) ==
    [name  |-> item_name,
     total |-> Format(header_total_bytes(img_width, img_height), 10, 5),
     bpr   |-> Format(header_bytes_per_row(img_width), 10, 3),
     hexlen |-> hexlen]

\* lines 189-202 on an image already drawn
encode_image(item_name, im, hex) ==
    IF Len(hex) = 0 THEN None
    ELSE Some(dgr_command(item_name, im.w, im.h, Len(hex)))

\* ------------------------------------------------------------ strings
\* code points of the characters record values are written with
Alphabet == <<"A", "F", "P", "C", "E", "0", "1", "2", "3", "4", "5", "6", "7", "8", "9",
              "/", "-", " ", "^", "X", "Z">>
Code(c) == CHOOSE i \in 1..Len(Alphabet) : Alphabet[i] = c

\* Python's str hash: a function of the string and of the seed the process drew at
\* start (PYTHONHASHSEED); a seeded polynomial hash stands for it
RECURSIVE PyHashFrom(_, _)
PyHashFrom(h, s) ==
    IF Len(s) = 0 THEN h
    ELSE PyHashFrom((h * 31 + Code(Head(s))) % 1000003, Tail(s))
PyHash(s) == PyHashFrom(hashseed, s)

\* date.strftime('%Y/%m/%d'), lines 950-951
strftime(d) ==
    Format(d.y, 10, 4) \o <<"/">> \o Format(d.m, 10, 2) \o <<"/">> \o Format(d.d, 10, 2)

\* ------------------------------------------------- fixed captions
\* lines 270-281, in insertion order
FixedKeyOrder == <<"IN", "OUT", "REAGENT_NAME", "BATCH", "EXPIRY", "ENTRY_DATE",
                   "PERSON", "CHECKOUT_DATE", "NEW_BATCH", "QUALIFIED">>
FixedKeys == {FixedKeyOrder[i] : i \in 1..Len(FixedKeyOrder)}

fixed_texts ==
    [k \in FixedKeys |->
        CASE k = "IN"            -> <<"[[", "ru", "ku", "]]">>
          [] k = "OUT"           -> <<"[[", "chu", "ku", "]]">>
          [] k = "REAGENT_NAME"  -> <<"shi", "ji", "ming", "cheng", ":">>
          [] k = "BATCH"         -> <<"shi", "ji", "pi", "hao", ":">>
          [] k = "EXPIRY"        -> <<"wen", "ding", "xiao", "qi", ":">>
          [] k = "ENTRY_DATE"    -> <<"ru", "ku", "ri", "qi", ":">>
          [] k = "PERSON"        -> <<"ren", "yuan", ":">>
          [] k = "CHECKOUT_DATE" -> <<"chu", "ku", "ri", "qi", ":">>
          [] k = "NEW_BATCH"     -> <<">", ">", "xin", "pi", "hao", "<", "<">>
          [] k = "QUALIFIED"     -> <<"(", "yun", "shou", "he", "ge", ")">>]

\* ------------------------------------------------- ZPL directives
\* one line of a block; unused fields keep their neutral value
NoName == [item |-> "", n |-> -1]
Dir(cmd) == [cmd |-> cmd, x |-> 0, y |-> 0, w |-> 0, h |-> 0, t |-> 0,
             name |-> NoName, font |-> "", text |-> <<>>]
\* ^FO{x},{y}^GB{w},{h},{t}^FS
Box(x, y, w, h, t) == [Dir("^GB") EXCEPT !.x = x, !.y = y, !.w = w, !.h = h, !.t = t]
\* ^FO{x},{y}^XG{name}^FS
Ref(x, y, name) == [Dir("^XG") EXCEPT !.x = x, !.y = y, !.name = name]
\* ^FO{x},{y}^A0N,22,22^FD{text}^FS (font A0N) or ^A0B,22,22 (font A0B)
Txt(x, y, font, text) == [Dir("^FD") EXCEPT !.x = x, !.y = y, !.font = font, !.text = text]
\* ~DGR:{name},...: the definition of the graphic drawn from `text`
Gdef(name, text, bold) ==
    [Dir("~DGR") EXCEPT !.name = name, !.text = text,
                        !.font = IF bold THEN "bold" ELSE "regular"]

\* graphic name tokens: ITEM_{key} (line 286), ITEM_REAGENT_NAME_LABEL_DYN (line 955),
\* ITEM_..._DYN_{hash(s) % 10000} (lines 963, 971, 979, 986)
FixedName(key) == [item |-> "ITEM_" \o key, n |-> -1]
DynName(prefix, s) == [item |-> prefix, n |-> PyHash(s) % 10000]

\* ------------------------------------------------- generate_zpl_labels
\* lines 940-941
label_width_dots == 394
label_height_dots == 276

DynKeyOrder == <<"reagent_name_label", "reagent_name", "batch_number", "expiry", "entry_date">>
DynKeys == {DynKeyOrder[i] : i \in 1..Len(DynKeyOrder)}

\* lines 948-951
reagent_name(c) == c.entry.reagent_name
batch_number(c) == c.entry.reagent_batch_number
expiry_str(c) == strftime(c.entry.expiry_date)
entry_str(c) == strftime(c.entry.entry_date)

\* lines 953-990: the _text_to_zpl_graphic calls the function makes (a call is made
\* only for a non-empty string; the caption call only when its fixed graphic is absent)
dyn_attempted(fixed, entry) ==
    (IF Len(entry.reagent_name) > 0 /\ "REAGENT_NAME" \notin DOMAIN fixed
     THEN {"reagent_name_label"} ELSE {})
    \cup (IF Len(entry.reagent_name) > 0 THEN {"reagent_name"} ELSE {})
    \cup (IF Len(entry.reagent_batch_number) > 0 THEN {"batch_number"} ELSE {})
    \cup {"expiry", "entry_date"}

\* the text each call rasterizes and the name token it is given
dyn_text(c, k) ==
    CASE k = "reagent_name_label" -> fixed_texts["REAGENT_NAME"]
      [] k = "reagent_name"       -> reagent_name(c)
      [] k = "batch_number"       -> batch_number(c)
      [] k = "expiry"             -> expiry_str(c)
      [] k = "entry_date"         -> entry_str(c)

dyn_item_name(c, k) ==
    CASE k = "reagent_name_label" -> [item |-> "ITEM_REAGENT_NAME_LABEL_DYN", n |-> -1]
      [] k = "reagent_name"       -> DynName("ITEM_REAGENT_NAME_DYN_", reagent_name(c))
      [] k = "batch_number"       -> DynName("ITEM_BATCH_DYN_", batch_number(c))
      [] k = "expiry"             -> DynName("ITEM_EXPIRY_DYN_", expiry_str(c))
      [] k = "entry_date"         -> DynName("ITEM_ENTRY_DYN_", entry_str(c))

\* an off-by-one test of the copy index
is_first_label_upto1(c, i) == c.is_new_batch /\ i <= 1
\* line 1000
is_first_label(c, i) == c.is_new_batch /\ i = 0

\* lines 993-997
block_head == <<Dir("^XA"),
                [Dir("^PW") EXCEPT !.w = label_width_dots],
                [Dir("^LL") EXCEPT !.h = label_height_dots]>>

\* the single border for every copy
border_single(first) ==
    <<Box(5, 5, label_width_dots - 10, label_height_dots - 10, 2)>>
\* lines 1002-1021
border(first) ==
    LET border_thickness == 2
    IN  IF first
        THEN <<Box(5, 5, label_width_dots - 10, label_height_dots - 10, border_thickness * 3),
               Box(10, 10, label_width_dots - 20, label_height_dots - 20, border_thickness)>>
        ELSE <<Box(5, 5, label_width_dots - 10, label_height_dots - 10, border_thickness)>>

\* the dynamic definitions left out of the block
graphic_defs_fixed_only(fixed, c) ==
    LET fk == SelectSeq(FixedKeyOrder, LAMBDA k : k \in DOMAIN fixed)
    IN  [i \in 1..Len(fk) |-> fixed[fk[i]]]

\* lines 1025-1030: fixed definitions, then dynamic definitions, in dict order
graphic_defs(fixed, c) ==
    LET fk == SelectSeq(FixedKeyOrder, LAMBDA k : k \in DOMAIN fixed)
        dk == SelectSeq(DynKeyOrder, LAMBDA k : k \in DOMAIN c.names)
    IN  [i \in 1..Len(fk) |-> fixed[fk[i]]]
        \o [i \in 1..Len(dk) |-> Gdef(c.names[dk[i]], dyn_text(c, dk[i]), FALSE)]

\* lines 1034-1039 and 1156-1160: a title row
title_row(fixed, key, y_pos) ==
    IF key \in DOMAIN fixed
    THEN <<Ref(20, y_pos, FixedName(key))>>
    ELSE <<Txt(20, y_pos, "A0N", fixed_texts[key])>>

\* the value dropped when its dynamic graphic is missing
name_row_dropping(fixed, c, y_pos) ==
    LET dn == c.names
    IN  IF "REAGENT_NAME" \in DOMAIN fixed
        THEN <<Ref(20, y_pos, FixedName("REAGENT_NAME"))>>
             \o (IF "reagent_name" \in DOMAIN dn
                 THEN <<Ref(20 + 80 + 22, y_pos, dn["reagent_name"])>>
                 ELSE <<>>)
        ELSE IF "reagent_name" \in DOMAIN dn
             THEN (IF "reagent_name_label" \in DOMAIN dn
                   THEN <<Ref(20, y_pos, dn["reagent_name_label"])>>
                   ELSE <<Txt(20, y_pos, "A0N", <<"shi", "ji", "ming", "cheng", ":">>)>>)
                  \o <<Ref(20 + 80 + 22, y_pos, dn["reagent_name"])>>
             ELSE <<Txt(20, y_pos, "A0N",
                        <<"shi", "ji", "ming", "cheng", ":">> \o reagent_name(c))>>
\* lines 1042-1072
name_row(fixed, c, y_pos) ==
    LET label_width == 80
        char_spacing == 22
        dn == c.names
    IN  IF "REAGENT_NAME" \in DOMAIN fixed
        THEN <<Ref(20, y_pos, FixedName("REAGENT_NAME"))>>
             \o (IF "reagent_name" \in DOMAIN dn
                 THEN <<Ref(20 + label_width + char_spacing, y_pos, dn["reagent_name"])>>
                 ELSE <<Txt(20 + label_width + char_spacing, y_pos, "A0N", reagent_name(c))>>)
        ELSE IF "reagent_name" \in DOMAIN dn
             THEN (IF "reagent_name_label" \in DOMAIN dn
                   THEN <<Ref(20, y_pos, dn["reagent_name_label"])>>
                   ELSE <<Txt(20, y_pos, "A0N", <<"shi", "ji", "ming", "cheng", ":">>)>>)
                  \o <<Ref(20 + label_width + char_spacing, y_pos, dn["reagent_name"])>>
             ELSE <<Txt(20, y_pos, "A0N",
                        <<"shi", "ji", "ming", "cheng", ":">> \o reagent_name(c))>>

\* lines 1075-1117
batch_row(fixed, c, first, y_pos) ==
    LET label_width == 80
        char_spacing == 22
        dn == c.names
        new_mark == <<">", ">", "xin", "pi", "hao", "<", "<">>
        ok_mark == <<"(", "yun", "shou", "he", "ge", ")">>
        cap == <<"shi", "ji", "pi", "hao", ":">>
    IN  IF "BATCH" \in DOMAIN fixed
        THEN <<Ref(20, y_pos, FixedName("BATCH"))>>
             \o (IF "batch_number" \in DOMAIN dn
                 THEN <<Ref(20 + label_width + char_spacing, y_pos, dn["batch_number"])>>
                 ELSE <<Txt(20 + label_width + char_spacing, y_pos, "A0N", batch_number(c))>>)
             \o (IF first
                 THEN (IF "NEW_BATCH" \in DOMAIN fixed
                       THEN <<Ref(20 + label_width + char_spacing + 100, y_pos,
                                  FixedName("NEW_BATCH"))>>
                       ELSE <<Txt(20 + label_width + char_spacing + 100, y_pos, "A0B",
                                  new_mark)>>)
                 ELSE (IF "QUALIFIED" \in DOMAIN fixed
                       THEN <<Ref(20 + label_width + char_spacing + 100, y_pos,
                                  FixedName("QUALIFIED"))>>
                       ELSE <<Txt(20 + label_width + char_spacing + 100, y_pos, "A0N",
                                  ok_mark)>>))
        ELSE IF first
             THEN (IF "batch_number" \in DOMAIN dn
                   THEN <<Txt(20, y_pos, "A0N", cap),
                          Ref(20 + 80 + char_spacing, y_pos, dn["batch_number"]),
                          Txt(20 + 80 + char_spacing + 100, y_pos, "A0B", new_mark)>>
                   ELSE <<Txt(20, y_pos, "A0N", cap \o batch_number(c) \o <<" ">>),
                          Txt(20 + 80 + 22 + Len(batch_number(c)) * 11, y_pos, "A0B",
                              new_mark)>>)
             ELSE (IF "batch_number" \in DOMAIN dn
                   THEN <<Ref(20, y_pos, dn["batch_number"])>>
                   ELSE <<Txt(20, y_pos, "A0N",
                              cap \o batch_number(c) \o <<" ">> \o ok_mark)>>)

\* the caption alone when neither graphic exists
date_row_caption_only(fixed, c, key, dkey, cap, value, y_pos) ==
    LET dn == c.names
    IN  IF key \in DOMAIN fixed
        THEN <<Ref(20, y_pos, FixedName(key))>>
             \o (IF dkey \in DOMAIN dn
                 THEN <<Ref(20 + 80 + 22, y_pos, dn[dkey])>>
                 ELSE <<Txt(20 + 80 + 22, y_pos, "A0N", value)>>)
        ELSE IF dkey \in DOMAIN dn
             THEN <<Txt(20, y_pos, "A0N", cap), Ref(20 + 80 + 22, y_pos, dn[dkey])>>
             ELSE <<Txt(20, y_pos, "A0N", cap)>>
\* lines 1120-1135 (key EXPIRY / expiry) and 1138-1153 (key ENTRY_DATE / entry_date)
date_row(fixed, c, key, dkey, cap, value, y_pos) ==
    LET label_width == 80
        char_spacing == 22
        dn == c.names
    IN  IF key \in DOMAIN fixed
        THEN <<Ref(20, y_pos, FixedName(key))>>
             \o (IF dkey \in DOMAIN dn
                 THEN <<Ref(20 + label_width + char_spacing, y_pos, dn[dkey])>>
                 ELSE <<Txt(20 + label_width + char_spacing, y_pos, "A0N", value)>>)
        ELSE IF dkey \in DOMAIN dn
             THEN <<Txt(20, y_pos, "A0N", cap),
                    Ref(20 + 80 + char_spacing, y_pos, dn[dkey])>>
             ELSE <<Txt(20, y_pos, "A0N", cap \o value)>>

\* lines 1163-1172
checkout_row(fixed, y_pos) ==
    (IF "PERSON" \in DOMAIN fixed
     THEN <<Ref(20, y_pos, FixedName("PERSON"))>>
     ELSE <<Txt(20, y_pos, "A0N", <<"ren", "yuan">>)>>)
    \o (IF "CHECKOUT_DATE" \in DOMAIN fixed
        THEN <<Ref(190, y_pos, FixedName("CHECKOUT_DATE"))>>
        ELSE <<Txt(190, y_pos, "A0N", <<"chu", "ku", "ri", "qi">>)>>)

\* lines 992-1176: the block of copy index i
zpl_block(fixed, c, i) ==
    LET first == is_first_label(c, i)
    IN  block_head
        \o border(first)
        \o graphic_defs(fixed, c)
        \o title_row(fixed, "IN", 25)
        \o name_row(fixed, c, 55)
        \o batch_row(fixed, c, first, 85)
        \o date_row(fixed, c, "EXPIRY", "expiry",
                    <<"wen", "ding", "xiao", "qi", ":">>, expiry_str(c), 115)
        \o date_row(fixed, c, "ENTRY_DATE", "entry_date",
                    <<"ru", "ku", "ri", "qi", ":">>, entry_str(c), 145)
        \o title_row(fixed, "OUT", 175)
        \o checkout_row(fixed, 205)
        \o <<Dir("^XZ")>>

\* lines 926-1178: the locals of one call; dyn_ok are the dynamic keys whose
\* _text_to_zpl_graphic call returned a graphic
zpl_call(entry, quantity, is_new_batch, dyn_ok) ==
    LET c0 == [entry |-> entry,
               quantity |-> IF quantity.some THEN quantity.v ELSE entry.quantity,
               is_new_batch |-> is_new_batch,
               names |-> <<>>]
    IN  [c0 EXCEPT !.names = [k \in dyn_ok |-> dyn_item_name(c0, k)]]

generate_zpl_labels(fixed, c) ==
    [n \in 1..c.quantity |-> zpl_block(fixed, c, n - 1)]

\* ------------------------------------------------- the process
\* font files of lines 96-97, 138-139 and 890-917
FontFiles == {"msjh.ttc", "msjhbd.ttc", "msyhbd.ttc", "msyh.ttc"}
\* the file systems considered: every font installed, or none
FontEnvs == {[f \in FontFiles |-> "ok"], [f \in FontFiles |-> "missing"]}

\* the bold weight tried first
load_chinese_font_bold_first(fs) ==
    IF fs["msjhbd.ttc"] = "ok" THEN Some("msjhbd.ttc")
    ELSE IF fs["msjh.ttc"] = "ok" THEN Some("msjh.ttc")
    ELSE None

\* lines 87-117: the first candidate that exists and loads
load_chinese_font(fs) ==
    IF fs["msjh.ttc"] = "ok" THEN Some("msjh.ttc")
    ELSE IF fs["msjhbd.ttc"] = "ok" THEN Some("msjhbd.ttc")
    ELSE None

\* the guard without the test of the resolved font
graphics_enabled_without_font == IMAGE_AVAILABLE

\* line 130: the guard of _text_to_zpl_graphic
graphics_enabled == IMAGE_AVAILABLE /\ ZPL_CHINESE_FONT_PATH.some

\* the records rendered (the record of the example scenario)
Entries ==
    {[reagent_name |-> <<"A", "F", "P">>,
      reagent_batch_number |-> <<"A", "F", "P", "0", "0", "1">>,
      expiry_date |-> [y |-> 2025, m |-> 8, d |-> 31],
      entry_date |-> [y |-> 2025, m |-> 8, d |-> 20],
      quantity |-> 2]}
Quantities == {None} \cup {Some(q) : q \in 1..MaxCopies}

\* no document of the vector path yet (line 1422)
NoDoc == [pages |-> <<>>, code |-> <<>>, ctm |-> <<>>, shown |-> 0,
          closed_by_save |-> FALSE, saved |-> FALSE]

\* the spooler before send_zpl_to_printer: no handle, nothing written
NoPrinter == [handle |-> "none", closes |-> 0, written |-> <<>>, fault |-> "none",
              sent_ok |-> FALSE]

\* the threads that serve requests (line 1707: the development server is threaded)
Threads == {"t1", "t2"}
\* a thread between two requests
Idle == [at |-> "idle"]

\* nothing printed, no file written, no font registered, no request served, no row
InitPrint ==
    /\ runs = [t \in Threads |-> Idle]
    /\ db = <<>>
    /\ labels = <<>>
    /\ prev = None
    /\ printer = NoPrinter
    /\ zpl_file = None
    /\ result = None
    /\ pdf_doc = NoDoc
    /\ font_name = None
    /\ registered = {}

NoCall == [entry |-> <<>>, quantity |-> 0, is_new_batch |-> FALSE, names |-> <<>>]
NoImage == [w |-> 0, h |-> 0, px |-> <<>>]

Init ==
    /\ InitPrint
    /\ WINDOWS_PRINT_AVAILABLE = FALSE
    /\ pc = "load"
    /\ IMAGE_AVAILABLE \in BOOLEAN
    /\ fonts \in FontEnvs
    /\ ZPL_CHINESE_FONT_PATH = None
    /\ ZPL_FIXED_GRAPHICS = <<>>
    /\ hashseed = 0
    /\ call = NoCall
    /\ zpl_commands = <<>>
    /\ img = NoImage
    /\ hex_data = None
    /\ zpl_command = None

\* lines 297-299: module initialization, first step
LoadChineseFont ==
    /\ pc = "load"
    /\ pc' = "genfixed"
    /\ ZPL_CHINESE_FONT_PATH' =
          IF IMAGE_AVAILABLE THEN load_chinese_font(fonts) ELSE ZPL_CHINESE_FONT_PATH
    /\ UNCHANGED <<routeVars, IMAGE_AVAILABLE, ZPL_FIXED_GRAPHICS, fonts, hashseed, call,
                   zpl_commands, img, hex_data, zpl_command, printVars>>

\* lines 261-295 called at line 300: each caption whose _text_to_zpl_graphic call
\* returns a graphic is stored; a call may fail on its own (line 204)
GenerateFixedGraphics ==
    /\ pc = "genfixed"
    /\ pc' = "ready"
    /\ \E ok \in SUBSET FixedKeys :
          /\ graphics_enabled \/ ok = {}
          /\ ZPL_FIXED_GRAPHICS' =
                [k \in ok |-> Gdef(FixedName(k), fixed_texts[k], k = "NEW_BATCH")]
    /\ UNCHANGED <<routeVars, IMAGE_AVAILABLE, ZPL_CHINESE_FONT_PATH, fonts, hashseed, call,
                   zpl_commands, img, hex_data, zpl_command, printVars>>

\* lines 926-1178, called with a record of `entries` and a quantity of `quantities`;
\* the _text_to_zpl_graphic calls that return a graphic are those of a set of
\* `outcomes` (line 204: each call may fail on its own)
RenderLabels(entries, quantities, outcomes) ==
    /\ pc = "ready"
    /\ \E entry \in entries, quantity \in quantities, is_new_batch \in BOOLEAN :
         \E dyn_ok \in {o \cap dyn_attempted(ZPL_FIXED_GRAPHICS, entry) : o \in outcomes} :
            /\ graphics_enabled \/ dyn_ok = {}
            /\ call' = zpl_call(entry, quantity, is_new_batch, dyn_ok)
            /\ zpl_commands' = generate_zpl_labels(ZPL_FIXED_GRAPHICS, call')
    /\ pc' = "returned"
    /\ UNCHANGED <<routeVars, IMAGE_AVAILABLE, ZPL_CHINESE_FONT_PATH, ZPL_FIXED_GRAPHICS, fonts,
                   hashseed, img, hex_data, zpl_command, printVars>>

\* lines 926-1178 on the record of the example scenario
GenerateZplLabels == RenderLabels(Entries, Quantities, SUBSET DynKeys)

\* the caller has used the blocks; the locals of the call are gone (line 1178)
ReleaseBlocks ==
    /\ pc = "returned"
    /\ pc' = "ready"
    /\ call' = NoCall
    /\ zpl_commands' = <<>>
    /\ UNCHANGED <<routeVars, IMAGE_AVAILABLE, ZPL_CHINESE_FONT_PATH, ZPL_FIXED_GRAPHICS, fonts,
                   hashseed, img, hex_data, zpl_command, printVars>>

Next == LoadChineseFont \/ GenerateFixedGraphics \/ GenerateZplLabels \/ ReleaseBlocks

Spec == Init /\ [][Next]_vars

\* ------------------------------------------------- record text in the blocks
\* records whose name is free text of the form (lines 412-466 store it unchanged)
Record(name) ==
    [reagent_name |-> name,
     reagent_batch_number |-> <<"A", "F", "P", "0", "0", "1">>,
     expiry_date |-> [y |-> 2025, m |-> 8, d |-> 31],
     entry_date |-> [y |-> 2025, m |-> 8, d |-> 20],
     quantity |-> 1]
Records == {Record(<<"A", "F", "P">>), Record(<<"^", "X", "Z">>)}

\* the fixed sets considered after module initialization: every caption built, every
\* caption but BATCH built, none built
FixedFamily == {FixedKeys, FixedKeys \ {"BATCH"}, {}}

\* lines 15-29 and 297-300 as one step: the globals once the module is imported
Imported(path, fixed) ==
    /\ path = IF IMAGE_AVAILABLE THEN load_chinese_font(fonts) ELSE None
    /\ \E ok \in FixedFamily :
          /\ (IMAGE_AVAILABLE /\ load_chinese_font(fonts).some) \/ ok = {}
          /\ fixed = [k \in ok |-> Gdef(FixedName(k), fixed_texts[k], k = "NEW_BATCH")]

InitImported ==
    /\ InitPrint
    /\ pc = "ready"
    /\ IMAGE_AVAILABLE \in BOOLEAN
    /\ fonts \in FontEnvs
    /\ Imported(ZPL_CHINESE_FONT_PATH, ZPL_FIXED_GRAPHICS)
    /\ call = NoCall
    /\ zpl_commands = <<>>
    /\ img = NoImage
    /\ hex_data = None
    /\ zpl_command = None

InitText == InitImported /\ WINDOWS_PRINT_AVAILABLE = FALSE /\ hashseed = 0

\* lines 926-1178 on records of any text
GenerateZplLabelsOfRecord == RenderLabels(Records, {None, Some(2)}, SUBSET DynKeys)

NextText == GenerateZplLabelsOfRecord \/ ReleaseBlocks

SpecText == InitText /\ [][NextText]_vars

\* ------------------------------------------------- the font of the vector path
\* what a font file is to the process: it loads, it exists but does not load, it is
\* not there
FontStatus == {"ok", "bad", "missing"}

\* the first file that exists is returned, registered or not
get_chinese_font_first_existing(fs, reg) ==
    IF fs["msjhbd.ttc"] # "missing"
    THEN [name |-> "ChineseFontBold", registered |-> reg]
    ELSE IF fs["msjh.ttc"] # "missing"
    THEN [name |-> "ChineseFont", registered |-> reg]
    ELSE IF fs["msyhbd.ttc"] # "missing"
    THEN [name |-> "ChineseFontBold", registered |-> reg]
    ELSE IF fs["msyh.ttc"] # "missing"
    THEN [name |-> "ChineseFont", registered |-> reg]
    ELSE [name |-> "Helvetica-Bold", registered |-> reg]
\* lines 885-924: four guarded attempts in turn; an attempt on a file that exists
\* and registers returns (lines 890-892), one that raises is passed over (lines
\* 893-894), one on a missing file falls through
get_chinese_font(fs, reg) ==
    IF fs["msjhbd.ttc"] = "ok"
    THEN [name |-> "ChineseFontBold", registered |-> reg \cup {"ChineseFontBold"}]
    ELSE IF fs["msjh.ttc"] = "ok"
    THEN [name |-> "ChineseFont", registered |-> reg \cup {"ChineseFont"}]
    ELSE IF fs["msyhbd.ttc"] = "ok"
    THEN [name |-> "ChineseFontBold", registered |-> reg \cup {"ChineseFontBold"}]
    ELSE IF fs["msyh.ttc"] = "ok"
    THEN [name |-> "ChineseFont", registered |-> reg \cup {"ChineseFont"}]
    ELSE [name |-> "Helvetica-Bold", registered |-> reg]

InitFont ==
    /\ InitPrint
    /\ WINDOWS_PRINT_AVAILABLE = FALSE
    /\ pc = "font"
    /\ IMAGE_AVAILABLE = TRUE
    /\ fonts \in [FontFiles -> FontStatus]
    /\ ZPL_CHINESE_FONT_PATH = load_chinese_font(fonts)
    /\ ZPL_FIXED_GRAPHICS = <<>>
    /\ hashseed = 0
    /\ call = NoCall
    /\ zpl_commands = <<>>
    /\ img = NoImage
    /\ hex_data = None
    /\ zpl_command = None

\* lines 885-924
GetChineseFont ==
    /\ pc = "font"
    /\ pc' = "font_done"
    /\ LET r == get_chinese_font(fonts, registered)
       IN  /\ font_name' = Some(r.name)
           /\ registered' = r.registered
    /\ UNCHANGED <<routeVars, IMAGE_AVAILABLE, ZPL_CHINESE_FONT_PATH, ZPL_FIXED_GRAPHICS, fonts,
                   hashseed, call, zpl_commands, img, hex_data, zpl_command,
                   prev, WINDOWS_PRINT_AVAILABLE, printer, zpl_file, result, pdf_doc>>

NextFont == GetChineseFont

SpecFont == InitFont /\ [][NextFont]_vars

\* ------------------------------------------------- the vector path
\* lengths are in tenths of a millimetre, line widths in tenths of a point
label_width == 500
label_height == 350

\* one canvas operation; unused fields keep their neutral value; ctm is the
\* transform in force when the operation is drawn
Op(op) == [op |-> op, x |-> 0, y |-> 0, w |-> 0, h |-> 0, text |-> <<>>, font |-> "",
           ctm |-> <<>>]
translate(dx, dy) == [Op("translate") EXCEPT !.x = dx, !.y = dy]
rotate(theta) == [Op("rotate") EXCEPT !.w = theta]
setLineWidth(w) == [Op("setLineWidth") EXCEPT !.w = w]
rect(x, y, w, h) == [Op("rect") EXCEPT !.x = x, !.y = y, !.w = w, !.h = h]
setFont(name, size) == [Op("setFont") EXCEPT !.font = name, !.h = size]
drawString(x, y, text) == [Op("drawString") EXCEPT !.x = x, !.y = y, !.text = text]
\* an operation that leaves the transform as it is
resetTransforms_without_effect == Op("noop")

resetTransforms == Op("resetTransforms")

\* reportlab's Canvas: an operation joins the code of the current page; translate
\* and rotate extend the transform, resetTransforms returns to the default one
canvas_do(doc, o) ==
    [doc EXCEPT !.code = Append(@, [o EXCEPT !.ctm = doc.ctm]),
                !.ctm = CASE o.op \in {"translate", "rotate"} -> Append(@, o)
                          [] o.op = "resetTransforms" -> <<>>
                          [] OTHER -> @]
RECURSIVE canvas_run(_, _)
canvas_run(doc, ops) ==
    IF ops = <<>> THEN doc ELSE canvas_run(canvas_do(doc, Head(ops)), Tail(ops))
\* Canvas.showPage: the current page is closed and a fresh one begins
page_end(doc) == [doc EXCEPT !.pages = Append(@, doc.code), !.code = <<>>, !.ctm = <<>>]
showPage(doc) == [page_end(doc) EXCEPT !.shown = @ + 1]
\* Canvas.save: a page with code on it is closed first
save(doc) ==
    IF Len(doc.code) > 0
    THEN [page_end(doc) EXCEPT !.closed_by_save = TRUE, !.saved = TRUE]
    ELSE [doc EXCEPT !.saved = TRUE]

\* line 1432
pdf_is_first_label(c, i) == c.is_new_batch /\ i = 0
\* lines 1312 and 1334: the flag alone
direct_is_first_label(c, i) == c.is_new_batch

\* lines 1440-1451 (and 1312-1323): the border of a page
pdf_border(first) ==
    IF first
    THEN <<setLineWidth(20), rect(5, 5, label_width - 10, label_height - 10),
           setLineWidth(5), rect(15, 15, label_width - 30, label_height - 30)>>
    ELSE <<setLineWidth(5), rect(10, 10, label_width - 20, label_height - 20)>>

\* lines 1436-1482 (and 1309-1353): the operations of one page
pdf_label(c, first, font) ==
    <<translate(label_height, 0), rotate(90)>>
    \o pdf_border(first)
    \o <<setFont(font, 10),
         drawString(20, 290, <<"[[", "ru", "ku", "]]">>),
         setFont(font, 8),
         drawString(20, 250, <<"shi", "ji", "ming", "cheng", "fw:">> \o reagent_name(c)),
         drawString(20, 210,
                    <<"shi", "ji", "pi", "hao", "fw:">> \o batch_number(c) \o <<" ">>
                    \o (IF first THEN <<">", ">", "xin", "pi", "hao", "<", "<">>
                                 ELSE <<"(", "yun", "shou", "he", "ge", ")">>)),
         drawString(20, 170, <<"wen", "ding", "xiao", "qi", "fw:">> \o expiry_str(c)),
         drawString(20, 130, <<"ru", "ku", "shi", "jian", "fw:">> \o entry_str(c)),
         setFont(font, 10),
         drawString(20, 80, <<"[[", "chu", "ku", "]]">>),
         setFont(font, 8),
         drawString(20, 40, <<"ren", "yuan", "fw:">>),
         drawString(250, 40, <<"chu", "ku", "ri", "qi", "fw:">>),
         resetTransforms>>

\* the last two copies on one page
more_pages_but_last_two(i, quantity) == i < quantity - 2
\* line 1485 (and 1355): a page follows
more_pages(i, quantity) == i < quantity - 1

\* lines 1428-1486 (direct = FALSE) and 1306-1356 (direct = TRUE): the loop from
\* copy index i on
RECURSIVE draw_labels(_, _, _, _, _)
draw_labels(doc, c, font, direct, i) ==
    IF i >= c.quantity THEN doc
    ELSE LET first == IF direct THEN direct_is_first_label(c, i)
                      ELSE pdf_is_first_label(c, i)
             drawn == canvas_run(doc, pdf_label(c, first, font))
         IN  draw_labels(IF more_pages(i, c.quantity) THEN showPage(drawn) ELSE drawn,
                         c, font, direct, i + 1)

\* lines 1404-1489: the document of generate_pdf_labels
generate_pdf_labels(c, font) == save(draw_labels(NoDoc, c, font, FALSE, 0))
\* lines 1286-1358: the document of print_pdf_direct
print_pdf_direct(c, font) == save(draw_labels(NoDoc, c, font, TRUE, 0))

\* lines 1410-1411 (and 1290-1291): the locals of a call of either function
pdf_call(entry, quantity, is_new_batch) == zpl_call(entry, quantity, is_new_batch, {})

InitPaths == InitImported /\ WINDOWS_PRINT_AVAILABLE = FALSE /\ hashseed = 0

\* the blocks of the call are kept by the observer for the calls that follow
KeepBlocks ==
    /\ pc = "returned"
    /\ pc' = "ready"
    /\ prev' = Some([call |-> call, blocks |-> zpl_commands,
                     fixed |-> DOMAIN ZPL_FIXED_GRAPHICS, same_process |-> TRUE])
    /\ call' = NoCall
    /\ zpl_commands' = <<>>
    /\ UNCHANGED <<routeVars, processVars, hashseed, graphicVars, printer, zpl_file, result, pdf_doc,
                   font_name, registered>>

\* lines 1404-1556: the document is drawn and saved; whatever the print attempt of
\* lines 1492-1554 does, the call returns quantity (line 1556)
GeneratePdfLabels ==
    /\ pc = "ready"
    /\ \E entry \in Entries, quantity \in Quantities, is_new_batch \in BOOLEAN :
          LET f == get_chinese_font(fonts, registered)
          IN  /\ call' = pdf_call(entry, quantity, is_new_batch)
              /\ font_name' = Some(f.name)
              /\ registered' = f.registered
              /\ pdf_doc' = generate_pdf_labels(call', f.name)
              /\ result' = Some(call'.quantity)
    /\ pc' = "pdf_done"
    /\ UNCHANGED <<routeVars, processVars, hashseed, graphicVars, zpl_commands, prev, printer,
                   zpl_file>>

\* lines 1286-1402: likewise, with the border and marker test of lines 1312 and 1334
PrintPdfDirect ==
    /\ pc = "ready"
    /\ \E entry \in Entries, quantity \in Quantities, is_new_batch \in BOOLEAN :
          LET f == get_chinese_font(fonts, registered)
          IN  /\ call' = pdf_call(entry, quantity, is_new_batch)
              /\ font_name' = Some(f.name)
              /\ registered' = f.registered
              /\ pdf_doc' = print_pdf_direct(call', f.name)
              /\ result' = Some(call'.quantity)
    /\ pc' = "direct_done"
    /\ UNCHANGED <<routeVars, processVars, hashseed, graphicVars, zpl_commands, prev, printer,
                   zpl_file>>

\* the caller has the count; the canvas and the locals are gone, the registered
\* fonts stay with pdfmetrics
ReleaseDocument ==
    /\ pc \in {"pdf_done", "direct_done"}
    /\ pc' = "ready"
    /\ call' = NoCall
    /\ pdf_doc' = NoDoc
    /\ font_name' = None
    /\ result' = None
    /\ UNCHANGED <<routeVars, processVars, hashseed, graphicVars, zpl_commands, prev, printer,
                   zpl_file, registered>>

NextPaths ==
    GenerateZplLabels \/ KeepBlocks \/ GeneratePdfLabels \/ PrintPdfDirect \/ ReleaseDocument

SpecPaths == InitPaths /\ [][NextPaths]_vars

\* ------------------------------------------------- the protocol transport
\* where send_zpl_to_printer meets an exception: nowhere, or in one spooler call;
\* k is the index of the block whose WritePrinter call raises
SpoolerCalls == {"GetDefaultPrinter", "OpenPrinter", "StartDocPrinter", "StartPagePrinter",
                 "EndPagePrinter", "EndDocPrinter", "ClosePrinter"}
SendFailures(n) ==
    {[at |-> "none", k |-> 0]}
    \cup {[at |-> a, k |-> 0] : a \in SpoolerCalls}
    \cup {[at |-> "WritePrinter", k |-> k] : k \in 1..n}

\* the handle closed only at the end of a job that went through
send_zpl_to_printer_without_finally(blocks, fail) ==
    IF ~WINDOWS_PRINT_AVAILABLE THEN NoPrinter
    ELSE IF fail.at \in {"GetDefaultPrinter", "OpenPrinter"}
    THEN [NoPrinter EXCEPT !.fault = fail.at]
    ELSE [handle |-> IF fail.at = "none" THEN "closed" ELSE "open",
          closes |-> IF fail.at \in {"none", "ClosePrinter"} THEN 1 ELSE 0,
          written |-> CASE fail.at \in {"StartDocPrinter", "StartPagePrinter"} -> <<>>
                        [] fail.at = "WritePrinter" -> SubSeq(blocks, 1, fail.k - 1)
                        [] OTHER -> blocks,
          fault |-> fail.at,
          sent_ok |-> fail.at = "none"]
\* lines 1180-1224: the spooler after the call, the call that raised (fault) and the
\* value returned.  ClosePrinter is called in the finally clause of line 1217 on
\* every path that opened the handle; when it raises itself the handle stays open.
send_zpl_to_printer(blocks, fail) ==
    IF ~WINDOWS_PRINT_AVAILABLE THEN NoPrinter
    ELSE IF fail.at \in {"GetDefaultPrinter", "OpenPrinter"}
    THEN [NoPrinter EXCEPT !.fault = fail.at]
    ELSE [handle |-> IF fail.at = "ClosePrinter" THEN "open" ELSE "closed",
          closes |-> 1,
          fault |-> fail.at,
          written |-> CASE fail.at \in {"StartDocPrinter", "StartPagePrinter"} -> <<>>
                        [] fail.at = "WritePrinter" -> SubSeq(blocks, 1, fail.k - 1)
                        [] OTHER -> blocks,
          sent_ok |-> fail.at = "none"]

\* one write to the recovery file
FileItem(kind, i, text, block) == [kind |-> kind, i |-> i, text |-> text, block |-> block]

\* lines 1257-1262: the comment lines at the head of the file
recovery_header(c) ==
    <<FileItem("generated", 0, <<>>, <<>>),
      FileItem("name", 0, reagent_name(c), <<>>),
      FileItem("batch", 0, batch_number(c), <<>>),
      FileItem("new_batch", 0, IF c.is_new_batch THEN <<"shi">> ELSE <<"fou">>, <<>>),
      FileItem("quantity", c.quantity, <<>>, <<>>),
      FileItem("rule", 0, <<>>, <<>>)>>

\* the first block alone
recovery_blocks_first_only(blocks, upto) ==
    IF upto >= 1
    THEN <<FileItem("caption", 1, <<>>, <<>>), FileItem("block", 1, <<>>, blocks[1]),
           FileItem("separator", 1, <<>>, <<>>)>>
    ELSE <<>>
\* lines 1264-1267: caption, block and separator of the blocks 1..upto
RECURSIVE recovery_blocks(_, _)
recovery_blocks(blocks, upto) ==
    IF upto <= 0 THEN <<>>
    ELSE recovery_blocks(blocks, upto - 1)
         \o <<FileItem("caption", upto, <<>>, <<>>),
              FileItem("block", upto, <<>>, blocks[upto]),
              FileItem("separator", upto, <<>>, <<>>)>>

\* how writing the file of n blocks ends: all of it written, or an exception at
\* open (upto = -1: no file) or after the blocks 1..upto
FileOutcomes(n) ==
    {[ok |-> TRUE, upto |-> n]} \cup {[ok |-> FALSE, upto |-> k] : k \in -1..(n - 1)}

\* lines 1250-1281: the file left behind and the value returned
save_zpl_file(c, blocks, out) ==
    [file |-> IF out.upto < 0 THEN None
              ELSE Some(recovery_header(c) \o recovery_blocks(blocks, out.upto)),
     value |-> IF out.ok THEN c.quantity ELSE 0]

InitPrinting == InitImported /\ WINDOWS_PRINT_AVAILABLE \in BOOLEAN /\ hashseed = 0

\* lines 1226-1284, called with a record of `entries` and a quantity of
\* `quantities`; the _text_to_zpl_graphic calls that return a graphic are those of a
\* set of `outcomes`, the spooler call that raises is one of `faults`
PrintLabels(entries, quantities, outcomes, faults) ==
    /\ pc = "ready"
    /\ \E entry \in entries, quantity \in quantities, is_new_batch \in BOOLEAN,
          printer_type \in {"zpl", "pdf"} :
          IF printer_type = "zpl"
          THEN \E dyn_ok \in {o \cap dyn_attempted(ZPL_FIXED_GRAPHICS, entry) : o \in outcomes} :
                  LET c == zpl_call(entry, quantity, is_new_batch, dyn_ok)
                      blocks == generate_zpl_labels(ZPL_FIXED_GRAPHICS, c)
                  IN  /\ graphics_enabled \/ dyn_ok = {}
                      /\ call' = c
                      /\ zpl_commands' = blocks
                      /\ \E fail \in {f \in SendFailures(c.quantity) : f.at \in faults} :
                            LET p == send_zpl_to_printer(blocks, fail)
                            IN  /\ printer' = p
                                /\ IF p.sent_ok
                                   THEN zpl_file' = None /\ result' = Some(c.quantity)
                                   ELSE \E out \in FileOutcomes(c.quantity) :
                                           LET r == save_zpl_file(c, blocks, out)
                                           IN  zpl_file' = r.file /\ result' = Some(r.value)
                      /\ pc' = "zpl_printed"
                      /\ UNCHANGED <<pdf_doc, font_name, registered>>
          ELSE LET f == get_chinese_font(fonts, registered)
                   c == pdf_call(entry, quantity, is_new_batch)
               IN  /\ call' = c
                   /\ font_name' = Some(f.name)
                   /\ registered' = f.registered
                   /\ pdf_doc' = generate_pdf_labels(c, f.name)
                   /\ result' = Some(c.quantity)
                   /\ pc' = "pdf_done"
                   /\ UNCHANGED <<zpl_commands, printer, zpl_file>>
    /\ UNCHANGED <<routeVars, processVars, hashseed, graphicVars, prev>>

\* lines 1226-1284 on the record of the example scenario, any spooler call failing
GenerateAndPrintLabels ==
    PrintLabels(Entries, Quantities, SUBSET DynKeys, SpoolerCalls \cup {"none", "WritePrinter"})

\* the caller has the count (lines 563 and 1613); the locals are gone, the registered
\* fonts stay with pdfmetrics
ReturnCount ==
    /\ pc \in {"zpl_printed", "pdf_done"}
    /\ pc' = "ready"
    /\ call' = NoCall
    /\ zpl_commands' = <<>>
    /\ printer' = NoPrinter
    /\ zpl_file' = None
    /\ pdf_doc' = NoDoc
    /\ font_name' = None
    /\ result' = None
    /\ UNCHANGED <<routeVars, processVars, hashseed, graphicVars, prev, registered>>

NextPrinting == GenerateAndPrintLabels \/ ReturnCount

SpecPrinting == InitPrinting /\ [][NextPrinting]_vars

\* ------------------------------------------------- graphic names across calls
\* the seeds of str hashing: Python draws one per process unless PYTHONHASHSEED
\* fixes it
HashSeeds == {0, 1}

\* records of three names
NamedRecords == {Record(<<"A", "F", "P">>), Record(<<"A", "A", "F">>),
                 Record(<<"5", "7", "X">>)}

InitNames == InitImported /\ WINDOWS_PRINT_AVAILABLE = FALSE /\ hashseed \in HashSeeds

\* lines 926-1178 on the named records; every dynamic graphic is drawn, or none
GenerateZplLabelsOfName == RenderLabels(NamedRecords, {None}, {DynKeys, {}})

\* the process ends and the application is started again: str hashing is seeded
\* anew and lines 15-29 and 297-300 run again on the same machine
RestartProcess ==
    /\ pc = "ready"
    /\ hashseed' \in HashSeeds
    /\ Imported(ZPL_CHINESE_FONT_PATH', ZPL_FIXED_GRAPHICS')
    /\ registered' = {}
    /\ prev' = IF prev.some THEN Some([prev.v EXCEPT !.same_process = FALSE]) ELSE prev
    /\ UNCHANGED <<routeVars, pc, IMAGE_AVAILABLE, fonts, WINDOWS_PRINT_AVAILABLE, call, zpl_commands,
                   graphicVars, printer, zpl_file, result, pdf_doc, font_name>>

NextNames == GenerateZplLabelsOfName \/ KeepBlocks \/ RestartProcess

SpecNames == InitNames /\ [][NextNames]_vars

\* ------------------------------------------------- the font of the protocol path
\* module import on any font files: lines 297-299 alone
InitLoad ==
    /\ InitPrint
    /\ WINDOWS_PRINT_AVAILABLE = FALSE
    /\ pc = "load"
    /\ IMAGE_AVAILABLE \in BOOLEAN
    /\ fonts \in [FontFiles -> FontStatus]
    /\ ZPL_CHINESE_FONT_PATH = None
    /\ ZPL_FIXED_GRAPHICS = <<>>
    /\ hashseed = 0
    /\ call = NoCall
    /\ zpl_commands = <<>>
    /\ img = NoImage
    /\ hex_data = None
    /\ zpl_command = None

NextLoad == LoadChineseFont

SpecLoad == InitLoad /\ [][NextLoad]_vars

\* ------------------------------------------------- the bit packer alone
\* every bitmap of at most MaxArea pixels; a pixel is 0 (ink) or 1 (background)
Bitmaps ==
    UNION {[w : {d[1]}, h : {d[2]}, px : [(0..(d[1] - 1)) \X (0..(d[2] - 1)) -> {0, 1}]] :
             d \in {e \in (1..MaxArea) \X (1..MaxArea) : e[1] * e[2] <= MaxArea}}

InitEnc ==
    /\ InitPrint
    /\ WINDOWS_PRINT_AVAILABLE = FALSE
    /\ pc = "pack"
    /\ img \in Bitmaps
    /\ IMAGE_AVAILABLE = TRUE
    /\ fonts \in {[f \in FontFiles |-> "ok"]}
    /\ ZPL_CHINESE_FONT_PATH = Some("msjh.ttc")
    /\ ZPL_FIXED_GRAPHICS = <<>>
    /\ hashseed = 0
    /\ call = NoCall
    /\ zpl_commands = <<>>
    /\ hex_data = None
    /\ zpl_command = None

\* lines 189-202: the image drawn is packed and the ~DGR command is written
PackImage ==
    /\ pc = "pack"
    /\ pc' = "packed"
    /\ hex_data' = Some(image_to_zpl_hex(img))
    /\ zpl_command' = encode_image("ITEM_X", img, hex_data'.v)
    /\ UNCHANGED <<routeVars, IMAGE_AVAILABLE, ZPL_CHINESE_FONT_PATH, ZPL_FIXED_GRAPHICS, fonts,
                   hashseed, call, zpl_commands, img, printVars>>

NextEnc == PackImage

SpecEnc == InitEnc /\ [][NextEnc]_vars

\* ------------------------------------------------- _text_to_zpl_graphic on a text
\* line 84
ZPL_CHINESE_FONT_SIZE == 22
\* line 172
padding == 6

\* lines 223-251: the number of characters the loops append
hex_len(width, height) == 2 * hex_bytes_per_row(width) * height

InitGraphic ==
    /\ InitPrint
    /\ WINDOWS_PRINT_AVAILABLE = FALSE
    /\ pc = "graphic"
    /\ IMAGE_AVAILABLE \in BOOLEAN
    /\ fonts \in FontEnvs
    /\ ZPL_CHINESE_FONT_PATH = (IF IMAGE_AVAILABLE THEN load_chinese_font(fonts) ELSE None)
    /\ ZPL_FIXED_GRAPHICS = <<>>
    /\ hashseed = 0
    /\ call = NoCall
    /\ zpl_commands = <<>>
    /\ img = NoImage
    /\ hex_data = None
    /\ zpl_command = None

\* where _text_to_zpl_graphic meets an exception: nowhere, in the font load (lines
\* 134-153), in the measurement (lines 157-159), in the drawing (lines 178-185), or
\* inside _image_to_zpl_hex, which then returns None (lines 255-259)
GraphicFaults == {"none", "font", "measure", "draw", "pack"}

\* what _image_to_zpl_hex handed back: a payload of len characters, or None
Packed(value, len) == Some([value |-> value, len |-> len])

\* the payload not looked at before the command is written
graphic_result_unchecked(fault, item_name, img_width, img_height) ==
    IF fault \in {"font", "measure", "draw"} THEN None
    ELSE Some(dgr_command(item_name, img_width, img_height,
                          IF fault = "pack" THEN 0 ELSE hex_len(img_width, img_height)))
\* lines 133-208: the value returned once the guard of line 130 is passed
graphic_result(fault, item_name, img_width, img_height) ==
    IF fault \in {"font", "measure", "draw"} THEN None
    ELSE IF fault = "pack" \/ hex_len(img_width, img_height) = 0 THEN None
    ELSE Some(dgr_command(item_name, img_width, img_height, hex_len(img_width, img_height)))

\* lines 119-208 on a text of nlines lines of nchars full-width characters each.
\* The ink box textbbox measures (line 159) is the text's advance: one em per
\* character, one em per line, its origin off by (left, top).  img keeps the size of
\* the image drawn (lines 173-178), the box measured (bbox) and the box the ink
\* takes in the image when the text is drawn at (padding, text_y) (lines 182-185);
\* hex_data is what the packer returned, the payload kept by its length, and stays
\* None when the packer is not called.
TextToZplGraphic ==
    /\ pc = "graphic"
    /\ pc' = "graphic_done"
    /\ \E nchars \in 0..MaxChars, nlines \in 1..MaxLines, left \in -1..1, top \in -1..1,
          fault \in GraphicFaults :
          LET text_right == left + nchars * ZPL_CHINESE_FONT_SIZE
              text_bottom == top + nlines * ZPL_CHINESE_FONT_SIZE
              text_width == text_right - left
              text_height == text_bottom - top
              img_width == text_width + padding * 2
              img_height == text_height + padding * 2
              text_y == padding - top
          IN  IF ~graphics_enabled
              THEN /\ fault = "none" /\ nchars = 0 /\ nlines = 1 /\ left = 0 /\ top = 0
                   /\ zpl_command' = None
                   /\ hex_data' = hex_data
                   /\ img' = img
              ELSE IF fault \in {"font", "measure", "draw"}
              THEN /\ nchars = 0 /\ nlines = 1 /\ left = 0 /\ top = 0
                   /\ zpl_command' = graphic_result(fault, "ITEM_X", img_width, img_height)
                   /\ hex_data' = hex_data
                   /\ img' = img
              ELSE /\ fault = "pack" => (left = 0 /\ top = 0)
                   /\ img' = [w |-> img_width, h |-> img_height, px |-> <<>>,
                              bbox |-> [left |-> left, top |-> top,
                                        right |-> text_right, bottom |-> text_bottom],
                              ink |-> [left |-> padding + left, top |-> text_y + top,
                                       right |-> padding + text_right,
                                       bottom |-> text_y + text_bottom]]
                   /\ hex_data' = IF fault = "pack" THEN Packed("None", 0)
                                  ELSE Packed("hex", hex_len(img_width, img_height))
                   /\ zpl_command' = graphic_result(fault, "ITEM_X", img_width, img_height)
    /\ UNCHANGED <<routeVars, IMAGE_AVAILABLE, ZPL_CHINESE_FONT_PATH, ZPL_FIXED_GRAPHICS, fonts,
                   hashseed, call, zpl_commands, printVars>>

NextGraphic == TextToZplGraphic

SpecGraphic == InitGraphic /\ [][NextGraphic]_vars

\* ------------------------------------------------- the fixed graphics built again
\* lines 284-288 for one caption key
fixed_graphic(key) == Gdef(FixedName(key), fixed_texts[key], key = "NEW_BATCH")

\* module import up to line 299: the font path is resolved, the cache is empty
InitRebuild ==
    /\ InitPrint
    /\ WINDOWS_PRINT_AVAILABLE = FALSE
    /\ pc = "genfixed"
    /\ IMAGE_AVAILABLE \in BOOLEAN
    /\ fonts \in FontEnvs
    /\ ZPL_CHINESE_FONT_PATH = (IF IMAGE_AVAILABLE THEN load_chinese_font(fonts) ELSE None)
    /\ ZPL_FIXED_GRAPHICS = <<>>
    /\ hashseed = 0
    /\ call = NoCall
    /\ zpl_commands = <<>>
    /\ img = NoImage
    /\ hex_data = None
    /\ zpl_command = None

\* lines 261-266: a thread enters _generate_fixed_graphics; without PIL or a font
\* path it returns at once.  ok is the set of keys whose _text_to_zpl_graphic call
\* returns a graphic in this run (line 204: each call may fail on its own).
EnterFixedGraphics(t) ==
    /\ runs[t] = Idle
    /\ IF ~graphics_enabled
       THEN runs' = [runs EXCEPT ![t] = [at |-> "built", i |-> 1, ok |-> {}]]
       ELSE \E ok \in FixedFamily :
               runs' = [runs EXCEPT ![t] = [at |-> "build", i |-> 1, ok |-> ok]]
    /\ UNCHANGED <<pc, processVars, hashseed, call, zpl_commands, graphicVars, prev, printer,
                   zpl_file, result, pdf_doc, font_name, registered, db, labels>>

\* lines 283-288: one turn of the loop over fixed_texts; the key is assigned when
\* the call returned a graphic, and no key is ever removed
RenderFixedGraphic(t) ==
    /\ runs[t].at = "build"
    /\ LET key == FixedKeyOrder[runs[t].i]
       IN  ZPL_FIXED_GRAPHICS' =
              IF key \in runs[t].ok
              THEN [k \in DOMAIN ZPL_FIXED_GRAPHICS \cup {key} |->
                       IF k = key THEN fixed_graphic(key) ELSE ZPL_FIXED_GRAPHICS[k]]
              ELSE ZPL_FIXED_GRAPHICS
    /\ runs' = [runs EXCEPT ![t] =
                  [at |-> IF runs[t].i = Len(FixedKeyOrder) THEN "built" ELSE "build",
                   i |-> runs[t].i + 1, ok |-> runs[t].ok]]
    /\ UNCHANGED <<pc, IMAGE_AVAILABLE, ZPL_CHINESE_FONT_PATH, fonts, WINDOWS_PRINT_AVAILABLE,
                   hashseed, call, zpl_commands, graphicVars, prev, printer, zpl_file,
                   result, pdf_doc, font_name, registered, db, labels>>

NextRebuild == \E t \in Threads : EnterFixedGraphics(t) \/ RenderFixedGraphic(t)

SpecRebuild == InitRebuild /\ [][NextRebuild]_vars

\* ------------------------------------------------- the routes that store and print
\* most rows of the table, most labels printed
MaxRows == 2
MaxLabels == 3

\* the reagent name + batch number combinations of the requests
Combos == {[reagent_name |-> <<"A", "F", "P">>, reagent_batch_number |-> <<"0", "0", "1">>],
           [reagent_name |-> <<"A", "F", "P">>, reagent_batch_number |-> <<"0", "0", "2">>]}

\* lines 326-334: the row a request stores; id is the next primary key, and
\* entry_date, the time of the insert, grows with it
Row(rows, combo) ==
    [id |-> Len(rows) + 1, reagent_name |-> combo.reagent_name,
     reagent_batch_number |-> combo.reagent_batch_number, quantity |-> 1]

\* lines 422-425, 1600-1603: filter_by(reagent_name, reagent_batch_number)
filter_by(rows, name, batch) ==
    SelectSeq(rows, LAMBDA r : r.reagent_name = name /\ r.reagent_batch_number = batch)

InitRoutes == InitImported /\ WINDOWS_PRINT_AVAILABLE = FALSE /\ hashseed = 0

\* lines 412-466: a combination with no row is not stored, the answer asks for a
\* confirmation; any other is stored at once
add_entry ==
    /\ pc = "ready"
    /\ \E data \in Combos :
          LET is_new_batch == filter_by(db, data.reagent_name, data.reagent_batch_number) = <<>>
          IN  IF is_new_batch
              THEN /\ db' = db
                   /\ result' = Some([success |-> FALSE, is_new_batch |-> TRUE, entry_id |-> 0])
              ELSE /\ Len(db) < MaxRows
                   /\ db' = Append(db, Row(db, data))
                   /\ result' = Some([success |-> TRUE, is_new_batch |-> FALSE,
                                      entry_id |-> Len(db) + 1])
    /\ UNCHANGED <<pc, processVars, hashseed, call, zpl_commands, graphicVars, prev, printer,
                   zpl_file, pdf_doc, font_name, registered, runs, labels>>

\* lines 469-506: the row is stored without a look at the table
confirm_entry ==
    /\ pc = "ready"
    /\ Len(db) < MaxRows
    /\ \E data \in Combos :
          /\ db' = Append(db, Row(db, data))
          /\ result' = Some([success |-> TRUE, is_new_batch |-> TRUE, entry_id |-> Len(db) + 1])
    /\ UNCHANGED <<pc, processVars, hashseed, call, zpl_commands, graphicVars, prev, printer,
                   zpl_file, pdf_doc, font_name, registered, runs, labels>>

\* lines 1000 and 1432: the labels of one generate_and_print_labels call, copy by
\* copy; marked is is_first_label, which draws the double border and the marker
printed_labels(entry, quantity, is_new_batch) ==
    LET c == pdf_call(entry, quantity, is_new_batch)
    IN  [n \in 1..c.quantity |->
            [entry_id |-> entry.id, reagent_name |-> entry.reagent_name,
             reagent_batch_number |-> entry.reagent_batch_number,
             marked |-> is_first_label(c, n - 1)]]

\* lines 1594-1606: is_new_batch of print_direct; flag is the value of the request
\* (False when absent)
direct_is_new_batch(rows, entry, flag) ==
    IF flag THEN TRUE
    ELSE LET earliest_entry ==
                 filter_by(rows, entry.reagent_name, entry.reagent_batch_number)[1]
         IN  earliest_entry.id = entry.id

\* lines 1588-1613
print_direct ==
    /\ pc = "ready"
    /\ \E entry_id \in 1..Len(db), quantity \in {None, Some(2)}, flag \in BOOLEAN :
          LET entry == db[entry_id]
              out == printed_labels(entry, quantity,
                                    direct_is_new_batch(db, entry, flag))
          IN  /\ Len(labels) + Len(out) <= MaxLabels
              /\ labels' = labels \o out
              /\ result' = Some([success |-> TRUE, is_new_batch |-> FALSE, entry_id |-> entry_id])
    /\ UNCHANGED <<pc, processVars, hashseed, call, zpl_commands, graphicVars, prev, printer,
                   zpl_file, pdf_doc, font_name, registered, runs, db>>

\* lines 556-568: generate_and_print_labels(entry, quantity), is_new_batch left to
\* its default
reprint_labels ==
    /\ pc = "ready"
    /\ \E entry_id \in 1..Len(db), quantity \in {None, Some(2)} :
          LET out == printed_labels(db[entry_id], quantity, FALSE)
          IN  /\ Len(labels) + Len(out) <= MaxLabels
              /\ labels' = labels \o out
              /\ result' = Some([success |-> TRUE, is_new_batch |-> FALSE, entry_id |-> entry_id])
    /\ UNCHANGED <<pc, processVars, hashseed, call, zpl_commands, graphicVars, prev, printer,
                   zpl_file, pdf_doc, font_name, registered, runs, db>>

NextRoutes == add_entry \/ confirm_entry \/ print_direct \/ reprint_labels

SpecRoutes == InitRoutes /\ [][NextRoutes]_vars

\* ------------------------------------------------- render calls of several threads
InitShared == InitImported /\ WINDOWS_PRINT_AVAILABLE = TRUE /\ hashseed = 0

\* lines 926-951: a thread enters generate_zpl_labels; its two dictionaries of
\* dynamic graphics are new and empty (lines 944-945)
EnterRender(t) ==
    /\ runs[t] = Idle
    /\ \E entry \in Entries, is_new_batch \in BOOLEAN :
          runs' = [runs EXCEPT ![t] =
                     [at |-> "dynamic", call |-> zpl_call(entry, None, is_new_batch, {}),
                      dyn_ok |-> {}, blocks |-> <<>>]]
    /\ UNCHANGED <<pc, processVars, hashseed, call, zpl_commands, graphicVars, prev, printer,
                   zpl_file, result, pdf_doc, font_name, registered, db, labels>>

\* the dictionaries shared by the threads: a call finds the graphics of every call
\* in progress
dynamic_graphic_names_shared(rs, t) ==
    LET having(k) == {u \in Threads : rs[u].at # "idle" /\ k \in DOMAIN rs[u].call.names}
        keys == {k \in DynKeys : having(k) # {}}
    IN  [k \in keys |-> rs[CHOOSE u \in having(k) : TRUE].call.names[k]]
\* lines 944-945: dynamic_graphics and dynamic_graphic_names are locals of the call
dynamic_graphic_names(rs, t) == rs[t].call.names

\* lines 953-990: the dynamic graphics are rendered into the call's dictionaries;
\* line 954 reads the fixed cache
RenderDynamic(t) ==
    /\ runs[t].at = "dynamic"
    /\ \E dyn_ok \in {o \cap dyn_attempted(ZPL_FIXED_GRAPHICS, runs[t].call.entry) :
                        o \in {DynKeys, {}}} :
          /\ graphics_enabled \/ dyn_ok = {}
          /\ runs' = [runs EXCEPT ![t] =
                        [at |-> "compose",
                         call |-> zpl_call(runs[t].call.entry, Some(runs[t].call.quantity),
                                           runs[t].call.is_new_batch, dyn_ok),
                         dyn_ok |-> dyn_ok, blocks |-> <<>>]]
    /\ UNCHANGED <<pc, processVars, hashseed, call, zpl_commands, graphicVars, prev, printer,
                   zpl_file, result, pdf_doc, font_name, registered, db, labels>>

\* lines 992-1178: the blocks are composed from the fixed cache and from the
\* dictionaries the call reads
ComposeBlocks(t) ==
    /\ runs[t].at = "compose"
    /\ runs' = [runs EXCEPT ![t].at = "returned",
                            ![t].blocks =
                               generate_zpl_labels(ZPL_FIXED_GRAPHICS,
                                  [runs[t].call EXCEPT !.names = dynamic_graphic_names(runs, t)])]
    /\ UNCHANGED <<pc, processVars, hashseed, call, zpl_commands, graphicVars, prev, printer,
                   zpl_file, result, pdf_doc, font_name, registered, db, labels>>

\* line 1178: the caller has the blocks, the locals of the call are gone
ReturnBlocks(t) ==
    /\ runs[t].at = "returned"
    /\ runs' = [runs EXCEPT ![t] = Idle]
    /\ UNCHANGED <<pc, processVars, hashseed, call, zpl_commands, graphicVars, prev, printer,
                   zpl_file, result, pdf_doc, font_name, registered, db, labels>>

\* lines 1226-1284 meanwhile: the record of the example scenario printed on either
\* path, the spooler working or refusing to open
PrintLabelsMeanwhile == PrintLabels(Entries, {None}, {DynKeys, {}}, {"none", "OpenPrinter"})

NextShared ==
    \/ \E t \in Threads : EnterRender(t) \/ RenderDynamic(t) \/ ComposeBlocks(t) \/ ReturnBlocks(t)
    \/ PrintLabelsMeanwhile
    \/ ReturnCount

SpecShared == InitShared /\ [][NextShared]_vars

\* ================================================= properties
\* pat occurs in text as a run of consecutive characters
Contains(text, pat) ==
    \E k \in 1..(Len(text) - Len(pat) + 1) : SubSeq(text, k, k + Len(pat) - 1) = pat
IsPrefix(pat, text) == Len(pat) <= Len(text) /\ SubSeq(text, 1, Len(pat)) = pat

\* the directives of block b that satisfy P
Those(b, P(_)) == {b[k] : k \in {j \in 1..Len(b) : P(b[j])}}

Returned == pc = "returned"
BlockIds == 1..Len(zpl_commands)
\* block n is the block of copy index n - 1
IsFirstCopy(n) == call.is_new_batch /\ n = 1

\* the thicknesses of the box directives of a block, in order
BoxThicknesses(b) ==
    LET bx == SelectSeq(b, LAMBDA d : d.cmd = "^GB")
    IN  [k \in 1..Len(bx) |-> bx[k].t]

NewBatchText == <<">", ">", "xin", "pi", "hao", "<", "<">>
QualifiedText == <<"(", "yun", "shou", "he", "ge", ")">>
HasMarker(b, key, text) ==
    \E k \in 1..Len(b) :
        \/ b[k].cmd = "^XG" /\ b[k].name = [item |-> "ITEM_" \o key, n |-> -1]
        \/ b[k].cmd = "^FD" /\ Contains(b[k].text, text)
HasNewBatchMarker(b) == HasMarker(b, "NEW_BATCH", NewBatchText)
HasQualifiedMarker(b) == HasMarker(b, "QUALIFIED", QualifiedText)

\* C1: a call returns one block per copy; with isNewBatch the block of copy index 0
\* carries two box directives, of thickness 6 then 2, and every other block exactly
\* one, of thickness 2; without isNewBatch every block carries exactly one.
C1_BorderRule ==
    Returned =>
        /\ Len(zpl_commands) = call.quantity
        /\ \A n \in BlockIds :
              BoxThicknesses(zpl_commands[n]) = IF IsFirstCopy(n) THEN <<6, 2>> ELSE <<2>>
C1_Witness ==
    /\ Returned /\ call.is_new_batch /\ call.quantity >= 2
    /\ BoxThicknesses(zpl_commands[1]) = <<6, 2>>
    /\ BoxThicknesses(zpl_commands[2]) = <<2>>

\* C2: the block of copy index 0 of a new-batch call carries the new-batch marker
\* and no qualified marker; every other block carries the qualified marker and no
\* new-batch marker, whatever fixed and dynamic graphics exist.
C2_MarkerRule ==
    Returned =>
        \A n \in BlockIds :
            IF IsFirstCopy(n)
            THEN HasNewBatchMarker(zpl_commands[n]) /\ ~HasQualifiedMarker(zpl_commands[n])
            ELSE HasQualifiedMarker(zpl_commands[n]) /\ ~HasNewBatchMarker(zpl_commands[n])

\* C3: the blocks of copy index >= 1 are equal to each other, and without
\* isNewBatch the block of copy index 0 equals them too.
C3_CopiesIdentical ==
    Returned =>
        \A m, n \in BlockIds :
            ((m >= 2 /\ n >= 2) \/ ~call.is_new_batch) => zpl_commands[m] = zpl_commands[n]
C3_Witness ==
    /\ Returned /\ call.quantity >= 3 /\ call.is_new_batch
    /\ zpl_commands[2] = zpl_commands[3]
    /\ zpl_commands[1] # zpl_commands[2]

\* the rows of the layout: caption key, dynamic key, y position
Rows == {[key |-> "REAGENT_NAME", dkey |-> "reagent_name", y |-> 55],
         [key |-> "BATCH", dkey |-> "batch_number", y |-> 85],
         [key |-> "EXPIRY", dkey |-> "expiry", y |-> 115],
         [key |-> "ENTRY_DATE", dkey |-> "entry_date", y |-> 145]}

\* how block b renders the value of row r: the set of (method, x) of the directives
\* of the row that refer to the value's graphic or write the value as text
ValueRendering(b, r) ==
    {[method |-> "graphic", x |-> d.x] :
        d \in Those(b, LAMBDA e : e.cmd = "^XG" /\ e.y = r.y /\ r.dkey \in DOMAIN call.names
                                  /\ e.name = call.names[r.dkey])}
    \cup {[method |-> "text", x |-> d.x] :
        d \in Those(b, LAMBDA e : e.cmd = "^FD" /\ e.y = r.y
                                  /\ Contains(e.text, dyn_text(call, r.dkey)))}

\* how block b renders the caption of row r
CaptionRendering(b, r) ==
    {[method |-> "graphic", x |-> d.x] :
        d \in Those(b, LAMBDA e : e.cmd = "^XG" /\ e.y = r.y
                                  /\ e.name.item \in {"ITEM_" \o r.key,
                                                      "ITEM_REAGENT_NAME_LABEL_DYN"})}
    \cup {[method |-> "text", x |-> d.x] :
        d \in Those(b, LAMBDA e : e.cmd = "^FD" /\ e.y = r.y
                                  /\ IsPrefix(fixed_texts[r.key], e.text))}

\* C4: in a new-batch call every caption and every dynamic value is rendered by the
\* same method at the same position in the block of copy index 0 and in the blocks
\* of copy index >= 1.
C4_SameFieldRendering ==
    (Returned /\ call.is_new_batch) =>
        \A n \in BlockIds : \A r \in Rows :
            /\ ValueRendering(zpl_commands[n], r) = ValueRendering(zpl_commands[1], r)
            /\ CaptionRendering(zpl_commands[n], r) = CaptionRendering(zpl_commands[1], r)

\* C5: when font resolution failed the fixed set is empty, no dynamic graphic exists,
\* and the call still returns `copies` non-empty blocks, each writing the name, the
\* batch number and both date strings as native-font text.
C5_FontFailureKeepsText ==
    (Returned /\ ~graphics_enabled) =>
        /\ DOMAIN ZPL_FIXED_GRAPHICS = {} /\ DOMAIN call.names = {}
        /\ Len(zpl_commands) = call.quantity /\ call.quantity >= 1
        /\ \A n \in BlockIds :
              /\ Len(zpl_commands[n]) > 0
              /\ \A r \in Rows :
                    \E x \in {20, 122} :
                        [method |-> "text", x |-> x] \in ValueRendering(zpl_commands[n], r)
C5_Witness ==
    /\ Returned /\ ~graphics_enabled /\ call.quantity >= 2
    /\ \E k \in 1..Len(zpl_commands[2]) :
          /\ zpl_commands[2][k].cmd = "^FD"
          /\ Contains(zpl_commands[2][k].text, <<"2", "0", "2", "5", "/", "0", "8", "/", "3", "1">>)

\* C6: whatever fixed and dynamic graphics exist, every block renders each of the
\* four dynamic values, as a reference to the value's graphic or as its text.
C6_NoValueDropped ==
    Returned =>
        \A n \in BlockIds : \A r \in Rows : ValueRendering(zpl_commands[n], r) # {}
C6_Witness ==
    /\ Returned /\ call.quantity >= 2
    /\ "BATCH" \notin DOMAIN ZPL_FIXED_GRAPHICS
    /\ DOMAIN call.names = {"batch_number", "expiry"}
    /\ \A r \in Rows : ValueRendering(zpl_commands[2], r) # {}

\* the fixed captions of a label and where each is placed
Captions == {[key |-> "IN", x |-> 20, y |-> 25],
             [key |-> "REAGENT_NAME", x |-> 20, y |-> 55],
             [key |-> "BATCH", x |-> 20, y |-> 85],
             [key |-> "EXPIRY", x |-> 20, y |-> 115],
             [key |-> "ENTRY_DATE", x |-> 20, y |-> 145],
             [key |-> "OUT", x |-> 20, y |-> 175],
             [key |-> "PERSON", x |-> 20, y |-> 205],
             [key |-> "CHECKOUT_DATE", x |-> 190, y |-> 205]}

\* C7: a caption whose fixed graphic is absent is still rendered in every block, as
\* a graphic of the caption text or as native text that is the caption's literal
\* string, alone or followed by the value.
C7_CaptionFallbackText ==
    Returned =>
        \A n \in BlockIds : \A cp \in Captions :
            cp.key \notin DOMAIN ZPL_FIXED_GRAPHICS =>
                \E k \in 1..Len(zpl_commands[n]) :
                    LET d == zpl_commands[n][k]
                    IN  /\ d.x = cp.x /\ d.y = cp.y
                        /\ \/ d.cmd = "^FD" /\ IsPrefix(fixed_texts[cp.key], d.text)
                           \/ /\ d.cmd = "^XG" /\ cp.key = "REAGENT_NAME"
                              /\ d.name.item = "ITEM_REAGENT_NAME_LABEL_DYN"

\* the number a string of decimal digits denotes
DigitValue(ch) == (CHOOSE k \in 1..16 : DigitChars[k] = ch) - 1
RECURSIVE ParseDec(_)
ParseDec(ds) ==
    IF Len(ds) = 0 THEN 0
    ELSE ParseDec(SubSeq(ds, 1, Len(ds) - 1)) * 10 + DigitValue(ds[Len(ds)])

\* ceil(n / 8): the least number of bytes that hold n bits
CeilDiv8(n) == CHOOSE k \in 0..n : 8 * k >= n /\ 8 * (k - 1) < n

\* C8: for a bitmap of width w and height h the header states bytesPerRow =
\* ceil(w / 8) and totalBytes = bytesPerRow * h, and the payload the packer built has
\* h rows of that many bytes (two characters per byte).
C8_HeaderMatchesPayload ==
    pc = "packed" =>
        /\ zpl_command.some /\ hex_data.some
        /\ ParseDec(zpl_command.v.bpr) = CeilDiv8(img.w)
        /\ ParseDec(zpl_command.v.total) = CeilDiv8(img.w) * img.h
        /\ Len(hex_data.v) = 2 * ParseDec(zpl_command.v.total)
        /\ Len(hex_data.v) = 2 * ParseDec(zpl_command.v.bpr) * img.h
C8_Witness ==
    /\ pc = "packed" /\ img.w = 9 /\ img.h = 1
    /\ zpl_command.some
    /\ zpl_command.v.bpr = <<"0", "0", "2">> /\ zpl_command.v.total = <<"0", "0", "0", "0", "2">>
    /\ Len(hex_data.v) = 4

\* bit (7 - k) of byte b of row y of the payload
PayloadBit(hex, w, y, b, k) ==
    LET at == (y * CeilDiv8(w) + b) * 2
        byte == DigitValue(hex[at + 1]) * 16 + DigitValue(hex[at + 2])
    IN  (byte \div Pow2(7 - k)) % 2

\* C9: bit (7 - k) of byte b of row y is 1 exactly when pixel (8b + k, y) exists and
\* is ink (0); it is 0 for background (1) and beyond the width.
C9_PixelRoundTrip ==
    pc = "packed" =>
        /\ hex_data.some
        /\ Len(hex_data.v) = 2 * CeilDiv8(img.w) * img.h
        /\ \A y \in 0..(img.h - 1), b \in 0..(CeilDiv8(img.w) - 1), k \in 0..7 :
              (PayloadBit(hex_data.v, img.w, y, b, k) = 1)
                  <=> (8 * b + k < img.w /\ img.px[<<8 * b + k, y>>] = 0)
C9_Witness ==
    /\ pc = "packed" /\ img.w = 9 /\ img.h = 1
    /\ img.px[<<0, 0>>] = 0 /\ img.px[<<1, 0>>] = 1 /\ img.px[<<8, 0>>] = 0
    /\ \A x \in 2..7 : img.px[<<x, 0>>] = 1
    /\ hex_data.v = <<"8", "0", "8", "0">>

\* C10 as claimed: the total byte count is written with exactly 5 digits and the
\* bytes per row with exactly 3 digits, whatever the size of the image.
C10_FieldsNeverWiden ==
    (pc = "graphic_done" /\ zpl_command.some) =>
        Len(zpl_command.v.total) = 5 /\ Len(zpl_command.v.bpr) = 3

\* C10 as amended: both fields are decimal, denote the counts of the image exactly,
\* are zero-padded to at least 5 and 3 digits, and have exactly 5 and 3 digits as
\* long as the total is at most 99999 and the bytes per row at most 999.
C10_FieldsPaddedToMinimum ==
    (pc = "graphic_done" /\ zpl_command.some) =>
        LET total == zpl_command.v.total
            bpr == zpl_command.v.bpr
        IN  /\ \A k \in 1..Len(total) : DigitValue(total[k]) <= 9
            /\ \A k \in 1..Len(bpr) : DigitValue(bpr[k]) <= 9
            /\ ParseDec(bpr) = CeilDiv8(img.w)
            /\ ParseDec(total) = CeilDiv8(img.w) * img.h
            /\ Len(total) >= 5 /\ Len(bpr) >= 3
            /\ (ParseDec(total) <= 99999 => Len(total) = 5)
            /\ (ParseDec(bpr) <= 999 => Len(bpr) = 3)
            /\ (Len(total) > 5 => total[1] # "0")
            /\ (Len(bpr) > 3 => bpr[1] # "0")
C10_Witness ==
    /\ pc = "graphic_done" /\ zpl_command.some
    /\ Len(zpl_command.v.bpr) = 4 /\ Len(zpl_command.v.total) = 6

\* the graphic definitions of block b, in order
Definitions(b) == SelectSeq(b, LAMBDA d : d.cmd = "~DGR")

\* C12: every graphic reference of a block names a graphic that the same block
\* defines earlier under exactly that name, and all blocks of one call carry the
\* same definitions, fixed and dynamic.
C12_ReferencesDefined ==
    Returned =>
        \A n \in BlockIds :
            /\ \A k \in 1..Len(zpl_commands[n]) :
                  zpl_commands[n][k].cmd = "^XG" =>
                      \E j \in 1..(k - 1) :
                          /\ zpl_commands[n][j].cmd = "~DGR"
                          /\ zpl_commands[n][j].name = zpl_commands[n][k].name
            /\ Definitions(zpl_commands[n]) = Definitions(zpl_commands[1])
C12_Witness ==
    /\ Returned /\ call.quantity >= 2
    /\ "batch_number" \in DOMAIN call.names
    /\ \E k \in 1..Len(zpl_commands[2]) :
          zpl_commands[2][k].cmd = "^XG" /\ zpl_commands[2][k].name = call.names["batch_number"]
    /\ \E k \in 1..Len(zpl_commands[2]) :
          zpl_commands[2][k].cmd = "^XG" /\ zpl_commands[2][k].name = FixedName("QUALIFIED")

\* where the captions of a block stand: x and y of the directive
CaptionPlaces == {<<20, 25>>, <<20, 55>>, <<20, 85>>, <<20, 115>>, <<20, 145>>,
                  <<20, 175>>, <<20, 205>>, <<190, 205>>}

\* block b defines and refers to no graphic and writes a text directive at every
\* caption place
AllCaptionsNative(b) ==
    /\ \A k \in 1..Len(b) : b[k].cmd \notin {"^XG", "~DGR"}
    /\ \A p \in CaptionPlaces :
          \E k \in 1..Len(b) : b[k].cmd = "^FD" /\ b[k].x = p[1] /\ b[k].y = p[2]

\* module initialization is over and left no font path
FontResolutionFailed == pc \notin {"load"} /\ ~ZPL_CHINESE_FONT_PATH.some

\* no font path, no fixed graphic, and only native text in the blocks just returned
DegradedToNativeText ==
    /\ ~ZPL_CHINESE_FONT_PATH.some
    /\ DOMAIN ZPL_FIXED_GRAPHICS = {}
    /\ Returned => \A n \in BlockIds : AllCaptionsNative(zpl_commands[n])

\* C18: once font resolution has failed at initialization, the font path stays
\* unset and the fixed set stays empty for the rest of the process, and every block
\* of every later call writes all its captions as native text.
C18_NoRetryAfterFontFailure == [](FontResolutionFailed => []DegradedToNativeText)
C18_Witness ==
    /\ Returned /\ IMAGE_AVAILABLE /\ ~ZPL_CHINESE_FONT_PATH.some
    /\ call.quantity >= 2
    /\ AllCaptionsNative(zpl_commands[2])

\* the label-start and label-end delimiters as text
DelimiterTexts == {<<"^", "X", "A">>, <<"^", "X", "Z">>}

\* C11: every returned block starts with the label-start directive, ends with the
\* label-end directive, has no other directive of either kind, and no text directive
\* of it carries either delimiter in its field data.
C11_DelimitersBracketOnce ==
    Returned =>
        \A n \in BlockIds :
            LET b == zpl_commands[n]
            IN  /\ b[1].cmd = "^XA" /\ b[Len(b)].cmd = "^XZ"
                /\ \A k \in 2..(Len(b) - 1) : b[k].cmd \notin {"^XA", "^XZ"}
                /\ \A k \in 1..Len(b) :
                      b[k].cmd = "^FD" => \A d \in DelimiterTexts : ~Contains(b[k].text, d)

\* the candidates of the vector path in the order of the claim, with the name each
\* is registered under
FontCandidates == <<[file |-> "msjhbd.ttc", name |-> "ChineseFontBold"],
                    [file |-> "msjh.ttc", name |-> "ChineseFont"],
                    [file |-> "msyhbd.ttc", name |-> "ChineseFontBold"],
                    [file |-> "msyh.ttc", name |-> "ChineseFont"]>>
\* the candidates that exist and register
Registering == {i \in 1..Len(FontCandidates) : fonts[FontCandidates[i].file] = "ok"}

\* C17: get_chinese_font always returns a name: that of the first candidate, in the
\* order msjhbd, msjh, msyhbd, msyh, that exists and registers, which is then
\* registered, and Helvetica-Bold when no candidate does; a candidate that exists
\* but fails to register is passed over.
C17_FirstRegisteringFont ==
    pc = "font_done" =>
        /\ font_name.some
        /\ IF Registering = {}
           THEN font_name.v = "Helvetica-Bold"
           ELSE LET first == CHOOSE i \in Registering : \A j \in Registering : i <= j
                IN  /\ font_name.v = FontCandidates[first].name
                    /\ font_name.v \in registered
C17_Witness ==
    /\ pc = "font_done"
    /\ fonts["msjhbd.ttc"] = "bad" /\ fonts["msjh.ttc"] = "missing"
    /\ fonts["msyhbd.ttc"] = "bad" /\ fonts["msyh.ttc"] = "ok"
    /\ font_name = Some("ChineseFont")

\* C14: the document of generate_pdf_labels is saved with exactly one page per copy:
\* the showPage calls of the loop and the page closed by save add up to the number
\* of copies, and no page is empty.
C14_OnePagePerCopy ==
    pc = "pdf_done" =>
        /\ pdf_doc.saved
        /\ Len(pdf_doc.pages) = call.quantity
        /\ pdf_doc.shown + (IF pdf_doc.closed_by_save THEN 1 ELSE 0) = call.quantity
        /\ \A n \in 1..Len(pdf_doc.pages) : pdf_doc.pages[n] # <<>>
C14_Witness ==
    /\ pc = "pdf_done" /\ call.quantity = MaxCopies
    /\ pdf_doc.shown = MaxCopies - 1 /\ pdf_doc.closed_by_save
    /\ Len(pdf_doc.pages) = MaxCopies

\* the rectangles of page p, and whether a text of it contains t
PageRects(p) == SelectSeq(p, LAMBDA o : o.op = "rect")
PageHasText(p, t) == \E k \in 1..Len(p) : p[k].op = "drawString" /\ Contains(p[k].text, t)
PageIsNewBatch(p) == Len(PageRects(p)) = 2 /\ PageHasText(p, NewBatchText)
PageIsQualified(p) == Len(PageRects(p)) = 1 /\ PageHasText(p, QualifiedText)
BlockIsNewBatch(b) == Len(BoxThicknesses(b)) = 2 /\ HasNewBatchMarker(b)
BlockIsQualified(b) == Len(BoxThicknesses(b)) = 1 /\ HasQualifiedMarker(b)

\* a generate_pdf_labels call has returned after a generate_zpl_labels call with the
\* same record, copies and flag
SameRequestOnBothPaths ==
    /\ pc = "pdf_done" /\ prev.some
    /\ prev.v.call.entry = call.entry
    /\ prev.v.call.quantity = call.quantity
    /\ prev.v.call.is_new_batch = call.is_new_batch

\* C15: for the same record, copies and flag, page i of generate_pdf_labels has the
\* double border and the new-batch marker exactly when block i of
\* generate_zpl_labels has them, and otherwise both have a single border and the
\* qualified marker.
C15_PathsAgree ==
    SameRequestOnBothPaths =>
        \A n \in 1..call.quantity :
            LET p == pdf_doc.pages[n]
                b == prev.v.blocks[n]
            IN  /\ PageIsNewBatch(p) <=> BlockIsNewBatch(b)
                /\ ~PageIsNewBatch(p) => (PageIsQualified(p) /\ BlockIsQualified(b))

\* C16: in the document of print_pdf_direct only page 1, and only with the
\* new-batch flag, has the double border and the new-batch marker; every later page
\* has a single border and the qualified marker.
C16_DirectFirstCopyRule ==
    pc = "direct_done" =>
        \A n \in 1..Len(pdf_doc.pages) :
            /\ PageIsNewBatch(pdf_doc.pages[n]) => (n = 1 /\ call.is_new_batch)
            /\ n >= 2 => PageIsQualified(pdf_doc.pages[n])

\* the blocks of recovery file f in file order, and whether each block of f follows
\* a caption of its own number
FileBlocks(f) ==
    LET items == SelectSeq(f, LAMBDA e : e.kind = "block")
    IN  [k \in 1..Len(items) |-> items[k].block]
FileWellFormed(f) ==
    /\ Len(f) >= 1 /\ f[1].kind = "generated"
    /\ \A k \in 1..Len(f) :
          f[k].kind = "block" =>
              /\ k < Len(f) /\ f[k + 1].kind = "separator"
              /\ f[k - 1].kind = "caption" /\ f[k - 1].i = f[k].i
              /\ f[k].i = Cardinality({j \in 1..k : f[j].kind = "block"})
SendFailed == pc = "zpl_printed" /\ ~printer.sent_ok

HashedKeys == {"reagent_name", "batch_number", "expiry", "entry_date"}

\* C19: in one process, two calls give a dynamic field the same graphic name
\* exactly when the field's strings are equal: distinct strings never share a name,
\* equal strings always do.
C19_NamesFollowContent ==
    (Returned /\ prev.some /\ prev.v.same_process) =>
        \A k \in HashedKeys \cap DOMAIN call.names \cap DOMAIN prev.v.call.names :
            (call.names[k] = prev.v.call.names[k])
                <=> (dyn_text(call, k) = dyn_text(prev.v.call, k))

\* C20: two calls with the same record, copies and flag, with the same fixed and
\* dynamic graphics available, return the same blocks, in one process or across
\* process runs.
C20_Repeatable ==
    (/\ Returned /\ prev.some
     /\ prev.v.call.entry = call.entry
     /\ prev.v.call.quantity = call.quantity
     /\ prev.v.call.is_new_batch = call.is_new_batch
     /\ prev.v.fixed = DOMAIN ZPL_FIXED_GRAPHICS
     /\ DOMAIN prev.v.call.names = DOMAIN call.names)
        => prev.v.blocks = zpl_commands

\* the uppercase hexadecimal digits
UpperHexDigits == {"0", "1", "2", "3", "4", "5", "6", "7", "8", "9",
                   "A", "B", "C", "D", "E", "F"}

\* C29: the payload of every bitmap has exactly 2 * ceil(width / 8) * height
\* characters, each an uppercase hexadecimal digit, and half its length is the total
\* byte count the header declares.
C29_PayloadUppercaseHex ==
    pc = "packed" =>
        /\ hex_data.some
        /\ Len(hex_data.v) = 2 * CeilDiv8(img.w) * img.h
        /\ \A k \in 1..Len(hex_data.v) : hex_data.v[k] \in UpperHexDigits
        /\ zpl_command.some
        /\ 2 * ParseDec(zpl_command.v.total) = Len(hex_data.v)
C29_Witness ==
    /\ pc = "packed" /\ hex_data.some
    /\ img.w % 8 # 0 /\ img.h >= 2
    /\ \E k \in 1..Len(hex_data.v) : hex_data.v[k] \in {"A", "B", "C", "D", "E", "F"}

\* C30: after send_zpl_to_printer, a handle that was opened has had ClosePrinter
\* called on it exactly once, whichever spooler call raised, and is closed unless
\* ClosePrinter itself raised; a handle that was never opened is never closed; the
\* blocks written are the first blocks of the call in copy order, all of them when
\* the call returns True; and the call returns False on every fault.
C30_HandleClosedOnce ==
    pc = "zpl_printed" =>
        /\ printer.handle = "none" <=>
              (~WINDOWS_PRINT_AVAILABLE \/ printer.fault \in {"GetDefaultPrinter", "OpenPrinter"})
        /\ printer.handle = "none" => (printer.closes = 0 /\ printer.written = <<>>)
        /\ printer.handle # "none" => printer.closes = 1
        /\ printer.handle = "open" => printer.fault = "ClosePrinter"
        /\ IsPrefix(printer.written, zpl_commands)
        /\ printer.sent_ok => printer.written = zpl_commands
        /\ printer.sent_ok <=> (WINDOWS_PRINT_AVAILABLE /\ printer.fault = "none")
        /\ result.some
C30_Witness ==
    /\ pc = "zpl_printed" /\ call.quantity = 3
    /\ printer.fault = "WritePrinter" /\ Len(printer.written) = 1
    /\ printer.handle = "closed" /\ printer.closes = 1
    /\ ~printer.sent_ok

\* the transform of a page: translate(label_height, 0), then rotate(90), on the
\* identity
PageTransform == <<translate(label_height, 0), rotate(90)>>

\* C25: in the documents of generate_pdf_labels and print_pdf_direct every page
\* begins, under the identity transform, with one translate(label_height, 0) and one
\* rotate(90), has no other translation or rotation, draws all its content under
\* exactly that transform, and ends with the reset of the transform.
C25_TransformPerPage ==
    pc \in {"pdf_done", "direct_done"} =>
        \A n \in 1..Len(pdf_doc.pages) :
            LET p == pdf_doc.pages[n]
            IN  /\ Len(p) >= 3
                /\ p[1] = translate(label_height, 0)
                /\ p[2] = [rotate(90) EXCEPT !.ctm = <<translate(label_height, 0)>>]
                /\ \A k \in 3..Len(p) :
                      /\ p[k].op \notin {"translate", "rotate"}
                      /\ p[k].ctm = PageTransform
                /\ p[Len(p)].op = "resetTransforms"
                /\ \A k \in 1..(Len(p) - 1) : p[k].op # "resetTransforms"
C25_Witness ==
    /\ pc = "direct_done" /\ Len(pdf_doc.pages) = 3
    /\ \E k \in 1..Len(pdf_doc.pages[3]) :
          pdf_doc.pages[3][k].op = "drawString" /\ pdf_doc.pages[3][k].ctm = PageTransform

\* the caption keys of the rows, top to bottom
RowCaptionKeys == <<"IN", "REAGENT_NAME", "BATCH", "EXPIRY", "ENTRY_DATE", "OUT", "PERSON">>
\* a caption text without its final colon
CaptionStem(key) ==
    LET t == fixed_texts[key]
    IN  IF t[Len(t)] = ":" THEN SubSeq(t, 1, Len(t) - 1) ELSE t
\* directive d renders the caption of `key`: as its graphic, or as text that begins
\* with the caption
IsCaptionOf(d, key) ==
    \/ d.cmd = "^XG" /\ d.name = FixedName(key)
    \/ d.cmd = "^XG" /\ key = "REAGENT_NAME" /\ d.name.item = "ITEM_REAGENT_NAME_LABEL_DYN"
    \/ d.cmd = "^FD" /\ IsPrefix(CaptionStem(key), d.text)
\* directive d is the value of row r on its own: its graphic, or its text alone
IsOwnValueOf(d, r) ==
    \/ d.cmd = "^XG" /\ r.dkey \in DOMAIN call.names /\ d.name = call.names[r.dkey]
    \/ d.cmd = "^FD" /\ d.text = dyn_text(call, r.dkey)

\* C26: in every block the caption of row j (j = 0..6) stands at x = 20,
\* y = 25 + 30 * j, and a dynamic value emitted as a directive of its own stands on
\* its caption's row at x = 20 + 80 + 22 = 122.
C26_RowPositions ==
    Returned =>
        \A n \in BlockIds :
            LET b == zpl_commands[n]
            IN  /\ \A j \in 1..Len(RowCaptionKeys) :
                      \E k \in 1..Len(b) :
                          /\ b[k].x = 20 /\ b[k].y = 25 + 30 * (j - 1)
                          /\ IsCaptionOf(b[k], RowCaptionKeys[j])
                /\ \A r \in Rows : \A k \in 1..Len(b) :
                      IsOwnValueOf(b[k], r) => (b[k].x = 122 /\ b[k].y = r.y)

\* C21: the bitmap of a text is (right - left + 12) wide and (bottom - top + 12)
\* high for the ink box measured, and the ink of the text drawn lies in it with a
\* margin of exactly 6 pixels on the left, on the right, above and below.
C21_InkBoxPadded ==
    (pc = "graphic_done" /\ zpl_command.some) =>
        /\ img.w = img.bbox.right - img.bbox.left + 12
        /\ img.h = img.bbox.bottom - img.bbox.top + 12
        /\ img.ink.left = 6 /\ img.w - img.ink.right = 6
        /\ img.ink.top = 6 /\ img.h - img.ink.bottom = 6

\* the candidates of the protocol path in the order of the claim
ZplFontCandidates == <<"msjh.ttc", "msjhbd.ttc">>
\* the candidates that exist and load
Loading == {i \in 1..Len(ZplFontCandidates) : fonts[ZplFontCandidates[i]] = "ok"}

\* C22: after _load_chinese_font_for_zpl the font path is the first candidate, in
\* the order regular then bold, whose file exists and loads; a missing file or a
\* failed load passes to the next candidate; when none loads, or without PIL, the
\* path is left unset.
C22_FirstLoadingFont ==
    pc = "genfixed" =>
        IF IMAGE_AVAILABLE /\ Loading # {}
        THEN LET first == CHOOSE i \in Loading : \A j \in Loading : i <= j
             IN  ZPL_CHINESE_FONT_PATH = Some(ZplFontCandidates[first])
        ELSE ZPL_CHINESE_FONT_PATH = None
C22_Witness ==
    /\ pc = "genfixed" /\ IMAGE_AVAILABLE
    /\ fonts["msjh.ttc"] = "bad" /\ fonts["msjhbd.ttc"] = "ok"
    /\ ZPL_CHINESE_FONT_PATH = Some("msjhbd.ttc")

\* C23: a call of _text_to_zpl_graphic ends with None or with a command.  Without
\* PIL or without a font path it returns None and the packer is not called; a
\* command is returned only when the packer was called and handed back a payload
\* that is not empty; when the packer hands back None the call returns None.
C23_NoneOnFailure ==
    pc = "graphic_done" =>
        /\ zpl_command = None \/ zpl_command.some
        /\ ~graphics_enabled => (zpl_command = None /\ hex_data = None)
        /\ zpl_command.some =>
              (hex_data.some /\ hex_data.v.value = "hex" /\ hex_data.v.len > 0)
        /\ (hex_data.some /\ hex_data.v.value = "None") => zpl_command = None
C23_Witness ==
    /\ pc = "graphic_done" /\ graphics_enabled
    /\ hex_data = Packed("None", 0) /\ img.w > 12
    /\ zpl_command = None

\* C27: when _generate_fixed_graphics has run twice, one run after the other or the
\* two interleaved, the cache holds the keys and the graphics that one run alone
\* produced.
C27_BuildIdempotent ==
    (\A t \in Threads : runs[t].at = "built") =>
        \A t \in Threads :
            ZPL_FIXED_GRAPHICS = [k \in runs[t].ok |-> fixed_graphic(k)]

\* C24: a label is marked (new-batch marker and double border) only when its entry
\* is the first row of its reagent name + batch number combination and no label of
\* that combination was printed before it; so one combination never has two marked
\* labels.
C24_MarkedOnlyFirstCopy ==
    \A n \in 1..Len(labels) :
        labels[n].marked =>
            /\ filter_by(db, labels[n].reagent_name,
                         labels[n].reagent_batch_number)[1].id = labels[n].entry_id
            /\ \A m \in 1..(n - 1) :
                  ~(/\ labels[m].reagent_name = labels[n].reagent_name
                    /\ labels[m].reagent_batch_number = labels[n].reagent_batch_number)

\* the blocks of the render call of thread t, had it run alone
AloneBlocks(t) ==
    generate_zpl_labels(ZPL_FIXED_GRAPHICS,
                        zpl_call(runs[t].call.entry, Some(runs[t].call.quantity),
                                 runs[t].call.is_new_batch, runs[t].dyn_ok))

\* C28: once the module is imported no step of a render or print operation changes
\* the fixed cache or the font path, and whatever the other threads do, a render
\* call returns the blocks it returns when it runs alone.
C28_CacheReadOnlyCallsIsolated ==
    /\ [][ZPL_FIXED_GRAPHICS' = ZPL_FIXED_GRAPHICS
          /\ ZPL_CHINESE_FONT_PATH' = ZPL_CHINESE_FONT_PATH]_vars
    /\ [](\A t \in Threads : runs[t].at = "returned" => runs[t].blocks = AloneBlocks(t))
\* two calls in progress at once, one with its dynamic graphics and one without
C28_Witness ==
    /\ runs["t1"].at = "returned" /\ runs["t2"].at = "returned"
    /\ runs["t1"].dyn_ok # {} /\ runs["t2"].dyn_ok = {}
    /\ pc = "zpl_printed" /\ printer.sent_ok

====
